---------------------------- MODULE ClientSession ----------------------------
(***************************************************************************)
(* What a Client promises to the application, without sockets, parsers or  *)
(* stream features: a session goes from offline to negotiating, perhaps    *)
(* through authorized, to online, and back to offline at any time; and     *)
(* resource binding, the gate to online, starts only when every feature    *)
(* the application forces is in effect on the wire.                        *)
(*                                                                         *)
(* ClientStream is shown to implement this module.                         *)
(***************************************************************************)
CONSTANT Feature   \* Client::Feature without InvalidFeature

VARIABLES
    phase,      \* what isConnected(), connected(), authorized() tell the application
    secured,    \* the features really in effect on the current connection
    configs,    \* featureConfig()
    approved    \* binding has begun: the forced features were found in effect

vars == <<phase, secured, configs, approved>>

Phases == {"offline", "negotiating", "authorized", "online"}
FeatureConfig == {"Force", "Disable", "Auto"}

Forced == {k \in Feature : configs[k] = "Force"}

Init ==
    /\ phase = "offline"
    /\ secured = {}
    /\ configs \in [Feature -> FeatureConfig]
    /\ approved = FALSE

Configure ==
    /\ configs' \in [Feature -> FeatureConfig]
    /\ UNCHANGED <<phase, secured, approved>>

Begin ==
    /\ phase = "offline"
    /\ phase' = "negotiating"
    /\ UNCHANGED <<secured, configs, approved>>

\* A layer is added to the stream; authorization is one of them.
Secure(k) ==
    /\ phase \in {"negotiating", "authorized"}
    /\ ~approved
    /\ secured' = secured \cup {k}
    /\ phase' = IF k = "Authorization" THEN "authorized" ELSE phase
    /\ UNCHANGED <<configs, approved>>

Approve ==
    /\ phase \in {"negotiating", "authorized"}
    /\ Forced \subseteq secured
    /\ approved' = TRUE
    /\ UNCHANGED <<phase, secured, configs>>

GoOnline ==
    /\ phase \in {"negotiating", "authorized"}
    /\ approved
    /\ phase' = "online"
    /\ UNCHANGED <<secured, configs, approved>>

End ==
    /\ phase' = "offline"
    /\ secured' = {}
    /\ approved' = FALSE
    /\ UNCHANGED configs

Next ==
    \/ Configure
    \/ Begin
    \/ \E k \in Feature : Secure(k)
    \/ Approve
    \/ GoOnline
    \/ End

Spec == Init /\ [][Next]_vars

==============================================================================
