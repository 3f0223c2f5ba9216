--------------------------- MODULE VisitorRegion ----------------------------
(* How a request's region is found and what it decides.  A region key is a *)
(* sequence: <<"EU">>, a country, or a country and its subdivision.        *)
EXTENDS ConfigLayers, Sequences

CONSTANTS
  Europe,     \* _EU_COUNTRIES
  Countries,  \* every country
  Parts       \* subdivisions, of any country

ASSUME RegionAssumption == Europe \subseteq Countries

Default == <<"DEFAULT">>
EU == <<"EU">>

Requests ==
  [country: Countries,
   part: Parts \cup {Null},
   custom: BOOLEAN,        \* GEOIP_COUNTRY_HEADER is set, and on the request
   regionHeader: BOOLEAN,  \* GEOIP_REGION_HEADER is set, and on the request
   listed: BOOLEAN,        \* one of the built-in country headers is on it
   public: BOOLEAN,        \* the client address is known and not private
   maxmind: BOOLEAN,       \* the local database is set and knows the address
   api: BOOLEAN]           \* ip-api.com answers in time

\* country_to_region
CountryToRegion(c, part) ==
  IF c \in Europe THEN EU ELSE IF part # Null THEN <<c, part>> ELSE <<c>>

\* detect_region_from_headers: the region header counts beside the custom
\* country header alone.
FromHeaders(r) ==
  IF r.custom THEN CountryToRegion(r.country, IF r.regionHeader THEN r.part ELSE Null)
  ELSE IF r.listed THEN CountryToRegion(r.country, Null) ELSE Null

\* lookup_ip_maxmind and lookup_ip_region give country and subdivision alike;
\* one that fails leaves it to the next.
FromAddress(r) ==
  IF r.public /\ (r.maxmind \/ r.api) THEN CountryToRegion(r.country, r.part) ELSE Null

\* detect_region
Detected(r) == IF FromHeaders(r) # Null THEN FromHeaders(r) ELSE FromAddress(r)

\* apply_region, and render_public_config's test of the region: the blocking
\* mode that a visitor from there gets.
Served(config, region) ==
  IF region = Null \/ config.regional = Null THEN config.mode
  ELSE IF region \in DOMAIN config.regional THEN config.regional[region]
  ELSE IF Default \in DOMAIN config.regional THEN config.regional[Default] ELSE config.mode

\* Every region that a request may come from, and those of Europe's requests.
Regions == {Detected(r) : r \in Requests}
EuropeanRegions == {Detected(r) : r \in {q \in Requests : q.country \in Europe}}

-----------------------------------------------------------------------------

\* A visitor that cannot be located gets the default region's mode.
UnlocatedGetsDefault == Null \in Regions => Served(Resolved, Null) = Served(Resolved, Default)
=============================================================================
