------------------------------- MODULE Catalog -------------------------------
(***************************************************************************)
(* What the generation pipeline promises about catalog/root.json, the one  *)
(* object searches read.                                                   *)
(*                                                                         *)
(* The catalog is a tree of immutable versions.  Publishing makes a new    *)
(* version out of the current one and a set of whole deltas that it does   *)
(* not hold yet; withdrawing goes back to the version the current one was  *)
(* made from; a withdrawn version may be put back by the same operation    *)
(* that published it, but only on top of the version it was made from.     *)
(* Nothing else ever changes what a search can see.                        *)
(***************************************************************************)
EXTENDS Integers

CONSTANTS
    Delta,       \* the deltas ingestion may hand over
    Prefix,      \* the partitions of the catalog
    PrefixesOf,  \* [Delta -> SUBSET Prefix], where a delta has records
    Version,     \* the identities a version can have
    NoVersion    \* what stands for "no catalog yet"

VARIABLES
    current,     \* the version searches read
    made,        \* the versions that have ever been current
    parent,      \* [Version -> version it was made from]
    content      \* [Version -> [Prefix -> SUBSET Delta]]

vars == <<current, made, parent, content>>

Empty == [p \in Prefix |-> {}]

Held(parts) == UNION {parts[p] : p \in Prefix}

Visible == IF current = NoVersion THEN Empty ELSE content[current]

\* The part of the set S of deltas that belongs to partition p.
Slice(S, p) == {d \in S : p \in PrefixesOf[d]}

\* A catalog starts without a version, or with an exported one that holds none
\* of the deltas.
Init ==
    /\ current \in Version \cup {NoVersion}
    /\ made = {current} \ {NoVersion}
    /\ parent = [v \in Version |-> NoVersion]
    /\ content = [v \in Version |-> Empty]

\* A version made now: all records of every delta in S become visible at once.
Publish(v, S) ==
    /\ v \notin made
    /\ S \cap Held(Visible) = {}
    /\ parent' = [parent EXCEPT ![v] = current]
    /\ content' = [content EXCEPT ![v] =
                     [p \in Prefix |-> Visible[p] \cup Slice(S, p)]]
    /\ made' = made \cup {v}
    /\ current' = v

\* A version that was made before may only come back unchanged, and only over
\* the version it was made from.
Restore(v) ==
    /\ v \in made
    /\ parent[v] = current
    /\ current' = v
    /\ UNCHANGED <<made, parent, content>>

Withdraw ==
    /\ current # NoVersion
    /\ parent[current] # NoVersion
    /\ current' = parent[current]
    /\ UNCHANGED <<made, parent, content>>

Next ==
    \/ \E v \in Version, S \in SUBSET Delta : Publish(v, S)
    \/ \E v \in Version : Restore(v)
    \/ Withdraw

Spec == Init /\ [][Next]_vars
=============================================================================
