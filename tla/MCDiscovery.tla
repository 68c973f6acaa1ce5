---------------------------- MODULE MCDiscovery ----------------------------
(* A find_by_address with a scan of its own beside a watch_first.          *)
EXTENDS Discovery

CONSTANTS p1, p2, own, watch

MCPeripherals == {p1, p2}
MCOwned == {own}
MCPassive == {watch}
MCAccept == (own :> {p2}) @@ (watch :> {p1, p2})
=============================================================================
