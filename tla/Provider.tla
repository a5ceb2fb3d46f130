------------------------------ MODULE Provider ------------------------------
(***************************************************************************)
(* SimpleProvider: the handler that its InvokeHandler calls for a request  *)
(* runs a call of the provider's WorkFlow, through the wares and ports the *)
(* user has given it, also while requests are being served.                *)
(***************************************************************************)
EXTENDS InvokeHandler, WorkFlow

ASSUME CallsAssumption == WorkCalls = Jobs

providerVars == <<vars, workVars>>

ProviderTypeOK == TypeOK /\ WorkTypeOK

ProviderInit == Init /\ WorkInit

\* handleInvoking: JSON that cannot be parsed makes no call of the wares.
HandleInvoking(k) ==
    \/ CallWorks(k)
    \/ /\ calling' = [calling EXCEPT ![k].state = "threw"]
       /\ UNCHANGED <<works, ware, awaits, loose>>

Invoke(r, k) == NewInvoker(r, k) /\ HandleInvoking(k)

\* The handler's promise is the call's.
Replies(k)   == IsOver(k) /\ HandlerEnds(k) /\ UNCHANGED workVars
CannotEncode(k) == calling[k].state = "threw" /\ CannotReply(k) /\ UNCHANGED workVars

Handler(action) == action /\ UNCHANGED workVars

ProviderNext ==
    \/ Handler(Ready) \/ Handler(Close)
    \/ \E r \in Requests, k \in Jobs : Invoke(r, k)
    \/ \E k \in Jobs : \/ Replies(k) \/ CannotEncode(k)
                       \/ Handler(Resent(k)) \/ Handler(FirstReply(k))
                       \/ Handler(ReplyEnds(k)) \/ Handler(AllDone(k))
    \/ WorkNext /\ UNCHANGED vars

ProviderSpec == ProviderInit /\ [][ProviderNext]_providerVars

ProviderFairness ==
    /\ WorkFairness
    /\ \A k \in Jobs : /\ WF_providerVars(Replies(k))
                       /\ WF_vars(FirstReply(k)) /\ WF_vars(ReplyEnds(k))

ProviderFairSpec == ProviderSpec /\ ProviderFairness
=============================================================================
