-------------------------- MODULE MCAdministration --------------------------
EXTENDS Administration, TLC
CONSTANTS admin, user, b1

MCMaxRequests == [registry |-> 4, accounts |-> 4, settings |-> 3]
MCDesk == DOMAIN MCMaxRequests
MCOwner == b1 :> admin
MCInitialRoles == admin :> "staff" @@ user :> "technician"
MCConfigKey == <<"wifi_ssid", "wifi_password">>

\* Nothing tells the threads apart, nor the names of areas, nor the ids that
\* requests get.
Symmetry ==
  Permutations(Thread) \cup Permutations(Area) \cup Permutations(AreaName)
    \cup Permutations(Equipment) \cup Permutations(Item)
============================================================================
