----------------------------- MODULE MCConnect -----------------------------
(***************************************************************************)
(* Connect for TLC. Two DSNs are for the retries: an interval that does    *)
(* not divide the timeout, so that the last wait is cut short, and no      *)
(* timeout. The others do not retry, and differ in what the handshake      *)
(* depends on.                                                             *)
(***************************************************************************)
EXTENDS Connect

Base == [tls |-> FALSE, pipe |-> FALSE, pwd |-> TRUE, key |-> "no", clear |-> FALSE,
         compress |-> "no", zstdLib |-> TRUE, initSql |-> FALSE, timeout |-> 3, interval |-> 2]

Once == [Base EXCEPT !.timeout = 4, !.interval = 0]

MCDsns == {
    Base,
    [Base EXCEPT !.timeout = 0, !.key = "retrieve"],
    [Once EXCEPT !.tls = TRUE, !.compress = "any", !.initSql = TRUE],
    [Once EXCEPT !.tls = TRUE, !.compress = "zstd"],
    [Once EXCEPT !.tls = TRUE, !.pipe = TRUE, !.compress = "zlib"],
    [Once EXCEPT !.key = "pinned", !.clear = TRUE, !.compress = "any", !.zstdLib = FALSE],
    [Once EXCEPT !.pwd = FALSE],
    [Once EXCEPT !.pwd = FALSE, !.key = "retrieve", !.initSql = TRUE],
    [Once EXCEPT !.compress = "zstd", !.zstdLib = FALSE] }

MCOffers == {{"ssl", "zlib", "zstd"}, {"zlib"}}
=============================================================================
