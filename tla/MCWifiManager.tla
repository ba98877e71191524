--------------------------- MODULE MCWifiManager ---------------------------
(* WifiManager on a device with three networks, one mistyped. A behaviour is    *)
(* about calls that overlap the loop, the radio, a lost link and a restart;     *)
(* about writes that stop halfway on a device that has saved a network; or      *)
(* about scans beside the calls, which care for what the radio does and not for *)
(* what is in flash. The last two have one mishap or call less.                 *)
EXTENDS WifiManager

HomeFactory == Of("home")
Mishaps == IF prone = {} THEN 3 ELSE 2

MCInit ==
    /\ Init
    /\ ~(FlashFails /\ Scans)
    /\ FlashFails => stored.ssid = "work"
    /\ Scans => stored.ssid = NoCreds

MCNext == Next /\ calls' + losses' + boots' <= Mishaps

MCSpec == MCInit /\ [][MCNext]_vars /\ Fairness
============================================================================
