----------------------------- MODULE MCService -----------------------------
(* The parts of the process around its handlers: the rate limits, the hash  *)
(* permits and the life cycle. They share no state, so a behaviour is one   *)
(* of them.                                                                 *)
EXTENDS RateLimits, PasswordHasher, Lifecycle

\* A client behind the proxy, and one without address headers.
Proxied == [realIp |-> <<"a">>, forwarded |-> <<"b", "c">>]
Bare == [realIp |-> <<>>, forwarded |-> <<>>]
MCRequests ==
    {[path |-> "price", headers |-> Proxied, caller |-> "user"],
     [path |-> "price", headers |-> Proxied, caller |-> "stranger"],
     [path |-> "login", headers |-> Proxied, caller |-> "stranger"],
     [path |-> "health", headers |-> Bare, caller |-> "stranger"],
     [path |-> "other", headers |-> Bare, caller |-> "stranger"]}
MCUsers == {"user"}
MCLimit == [global |-> 1, login |-> 1, apiKey |-> 1]
MCLength == [global |-> 2, login |-> 3, apiKey |-> 2]

MCNormal == [typed |-> "n1", other |-> "n2"]
MCPasswords == {"typed", "other"}

MCBuilds == {{1}, {1, 2}, {1, 3}}

\* The slots are interchangeable.
Symmetry == Permutations(Slots)

VARIABLE part   \* what this behaviour is about

Init ==
    /\ part \in {"limits", "hasher", "lifecycle"}
    /\ LimitsInit /\ HasherInit /\ LifecycleInit
    /\ part # "lifecycle" => release.build = {1}

Next ==
    /\ \/ /\ part = "limits"
          /\ LimitsNext
          /\ UNCHANGED <<hasherVars, lifecycleVars>>
       \/ /\ part = "hasher"
          /\ HasherNext
          /\ UNCHANGED <<limitsVars, lifecycleVars>>
       \/ /\ part = "lifecycle"
          /\ LifecycleNext
          /\ UNCHANGED <<limitsVars, hasherVars>>
    /\ UNCHANGED part

serviceVars == <<part, limitsVars, hasherVars, lifecycleVars>>

Spec == Init /\ [][Next]_serviceVars
=============================================================================
