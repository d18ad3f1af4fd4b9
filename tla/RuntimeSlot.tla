---------------------------- MODULE RuntimeSlot ----------------------------
(***************************************************************************)
(* What the container runtime of an environment promises its users: the    *)
(* environment is a slot that holds one release, only a release the scan   *)
(* policy accepted ever enters it, a new release takes the place of the    *)
(* old one in one step, and once filled the slot is never empty again.     *)
(***************************************************************************)
CONSTANTS
    Release,    \* everything that can be released
    NoRelease   \* the content of a slot before its first release

VARIABLES
    slot,       \* the release that occupies the slot
    accepted    \* the releases the scan policy has accepted

slotVars == <<slot, accepted>>

SlotInit == slot = NoRelease /\ accepted = {}

Accept(r) ==
    /\ accepted' = accepted \cup {r}
    /\ UNCHANGED slot

Occupy(r) ==
    /\ r \in accepted
    /\ slot' = r
    /\ UNCHANGED accepted

SlotNext == \E r \in Release : Accept(r) \/ Occupy(r)

SlotSpec == SlotInit /\ [][SlotNext]_slotVars
=============================================================================
