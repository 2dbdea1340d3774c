-------------------------- MODULE MCNetProxyBoot --------------------------
(* Instance for TLC: more descriptors than the starts can ever hold at     *)
(* once, and a configuration file with no entries (as shipped, under the   *)
(* key "link_map") or with three (as MODIFICATION_DOC.md shows it).        *)
EXTENDS NetProxyBoot

TenFds == 0 .. 9
=============================================================================
