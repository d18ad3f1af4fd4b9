--------------------------- MODULE MCSubscriptions ---------------------------
(* What a plan allows and what is counted against it, for TLC: Stripe's      *)
(* webhooks, metered usage, the keys of the API and the counters in the      *)
(* cache.  The parts share no state that their properties read, so Init      *)
(* chooses the one that moves (`focus`) and the others keep their initial    *)
(* state.                                                                    *)
EXTENDS MCBilling, ApiKeys, Metering, MCRateLimit

VARIABLE focus

TypesOK == TypeOK /\ MeterTypeOK /\ KeyTypeOK /\ CounterTypeOK

PartsInit ==
    /\ focus \in {"billing", "meter", "keys", "counter"}
    /\ Init /\ MeterInit /\ KeyInit /\ CounterInit
    /\ focus # "meter" => limit = CHOOSE l \in Limits : TRUE
    /\ focus # "counter" => kind = "login"
    /\ focus # "billing" => refused = {}

PartsNext ==
    /\ UNCHANGED focus
    /\ \/ focus = "billing" /\ Next /\ UNCHANGED <<meterVars, keyVars, counterVars>>
       \/ focus = "meter" /\ MeterNext /\ UNCHANGED <<vars, keyVars, counterVars>>
       \/ focus = "keys" /\ KeyNext /\ UNCHANGED <<vars, meterVars, counterVars>>
       \/ focus = "counter" /\ CounterNext /\ UNCHANGED <<vars, meterVars, keyVars>>

partsVars == <<focus, vars, meterVars, keyVars, counterVars>>

\* The fairness of the webhook, while it is the part that moves.
OfBilling(A) == focus = "billing" /\ A /\ UNCHANGED <<focus, meterVars, keyVars, counterVars>>

PartsSpec ==
    /\ PartsInit
    /\ [][PartsNext]_partsVars
    /\ \A w \in Deliveries : WF_partsVars(OfBilling(End(w)))
    /\ \A n \in EventIds : /\ SF_partsVars(OfBilling(BeginAny(n)))
                           /\ SF_partsVars(OfBilling(ProcessAny(n)))
=============================================================================
