---------------------------- MODULE NetworkSwitch ----------------------------
(***************************************************************************)
(* What OnionPoller promises its user, without its connections, commands,  *)
(* polls and timers: tor's use of the network is a switch.  A call of      *)
(* enable_tor turns it on, and may turn it off again; a call of            *)
(* disable_tor turns it off; each does so between the call and the moment  *)
(* its callback is told, and not later.  What the callback is told says    *)
(* what was done.                                                          *)
(***************************************************************************)
CONSTANTS
    Enables,   \* the calls of enable_tor
    Disables,  \* the calls of disable_tor
    Statuses,  \* what a callback may be told
    Losses     \* those of them that say that the connection was lost

Calls == Enables \cup Disables

VARIABLES
    net,     \* tor uses the network
    asked,   \* the calls that were made
    effect,  \* effect[c]: what call c last did to the switch
    told     \* told[c]: what the callback of call c was last told

vars == <<net, asked, effect, told>>

Init ==
    /\ net = FALSE
    /\ asked = {}
    /\ effect = [c \in Calls |-> "none"]
    /\ told = [c \in Calls |-> "nothing"]

Ask(c) ==
    /\ c \notin asked
    /\ asked' = asked \cup {c}
    /\ UNCHANGED <<net, effect, told>>

Pending(c) == c \in asked /\ told[c] = "nothing"

TurnOn(c) ==
    /\ Pending(c)
    /\ c \in Enables
    /\ effect[c] = "none"
    /\ net' = TRUE
    /\ effect' = [effect EXCEPT ![c] = "on"]
    /\ UNCHANGED <<asked, told>>

\* disable_tor does nothing else; enable_tor takes back what it did.
TurnOff(c) ==
    /\ Pending(c)
    /\ effect[c] = IF c \in Enables THEN "on" ELSE "none"
    /\ net' = FALSE
    /\ effect' = [effect EXCEPT ![c] = "off"]
    /\ UNCHANGED <<asked, told>>

\* OK: what was asked for was done.  GENERIC_ERROR: it was taken back.  Any
\* other status leaves open how far the call got.
Tell(c, status) ==
    /\ Pending(c)
    /\ status = "OK" => effect[c] = IF c \in Enables THEN "on" ELSE "off"
    /\ status = "GENERIC_ERROR" => c \in Enables /\ effect[c] = "off"
    /\ told' = [told EXCEPT ![c] = status]
    /\ UNCHANGED <<net, asked, effect>>

\* The loss of the connection may be told twice to the callback of enable_tor.
TellAgain(c, status) ==
    /\ c \in Enables
    /\ told[c] \in Losses
    /\ status \in Losses
    /\ told' = [told EXCEPT ![c] = status]
    /\ UNCHANGED <<net, asked, effect>>

Next ==
    \E c \in Calls :
        \/ Ask(c)
        \/ TurnOn(c)
        \/ TurnOff(c)
        \/ \E status \in Statuses : Tell(c, status) \/ TellAgain(c, status)

Spec == Init /\ [][Next]_vars
=============================================================================
