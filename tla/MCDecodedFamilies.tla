-------------------------- MODULE MCDecodedFamilies --------------------------
(* Two families of behaviours of DecodedYear that one instance has room for: *)
(* many calls at the gate of one year, and one caller over many years.       *)
EXTENDS MCDecodedYear

CONSTANTS r1, y1

\* "gate": everybody reads y1, a row of which is rewritten and may not decode.
\* "memory": r1 alone reads all the years, whose rows stay as they are.
VARIABLE family

GateOnly ==
  /\ \A r \in Readers : pc[r] # "idle" => year[r] = y1
  /\ db[y1] # blobB /\ \A y \in Years \ {y1} : db[y] = NoRow
MemoryOnly ==
  /\ \A r \in Readers \ {r1} : pc[r] = "idle"
  /\ foreign = {} /\ \A m \in Mutators : cover[m] = {}
InFamily == IF family = "gate" THEN GateOnly ELSE MemoryOnly

MCInit == /\ Init /\ family \in {"gate", "memory"} /\ InFamily
          /\ \A r \in Readers : year[r] = y1
MCNext == Next /\ UNCHANGED family /\ InFamily'
MCSpec == MCInit /\ [][MCNext]_<<vars, family>> /\ Fairness
=============================================================================
