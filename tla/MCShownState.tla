---------------------------- MODULE MCShownState ----------------------------
(* One line and one setting, and a device in each of its ways to be set up. *)
EXTENDS ShownState

Setup(mode, ssid, uri, router) ==
    [mode |-> mode, ssid |-> ssid, uri |-> uri, router |-> router]

MCSetups ==
    {Setup("mqtt", TRUE, TRUE, TRUE),     \* everything
     Setup("mqtt", TRUE, FALSE, TRUE),    \* no broker: the router waits for good
     Setup("zigbee", FALSE, FALSE, FALSE)} \* the portal from the start
=============================================================================
