----------------------------- MODULE UniqueNames -----------------------------
(***************************************************************************)
(* _unique_names (subscriptions.py, shadowrocket.py): the nodes of a       *)
(* provider are told apart by their names, so a name that comes again is   *)
(* given a number.  Every source of a provider is renamed by itself when   *)
(* it is converted, and all of them together when they are merged.         *)
(*                                                                         *)
(* A name is what the provider called the node, and the numbers that were  *)
(* put behind it: [base |-> "a", numbers |-> <<2>>] is "a (2)".            *)
(***************************************************************************)
EXTENDS Integers, Sequences, FiniteSets

CONSTANTS
  NumSources,     \* the sources of one provider, in the order of merging
  Bases,          \* names of nodes
  MaxNodes        \* how many nodes a source has at most

ASSUME NamesAssumption == NumSources \in Nat \ {0} /\ MaxNodes \in Nat

SourceIds  == 1 .. NumSources
NamesOfAll == [base : Bases, numbers : Seq(Nat)]
\* What a source may give; some call a node "a (2)" themselves.
GivenNames == [base : Bases, numbers : {<<>>, <<2>>}]

VARIABLES
  given,          \* source -> the names of its nodes
  converted,      \* source -> its names after conversion, or <<>>
  merged          \* the names of the provider file, or <<>>

namesVars == <<given, converted, merged>>

\* The how-manieth of its name a node is.
CountUpTo(names, i) == Cardinality({j \in 1 .. i : names[j] = names[i]})

Numbered(name, count) == [name EXCEPT !.numbers = Append(@, count)]

\* Mutant: one number for all.
NumbersOnce(names) ==
  [i \in DOMAIN names |-> IF CountUpTo(names, i) > 1 THEN Numbered(names[i], 2) ELSE names[i]]

\* The count is of the names as they came, not of the names given so far.
Renamed(names) ==
  [i \in DOMAIN names |->
     IF CountUpTo(names, i) > 1 THEN Numbered(names[i], CountUpTo(names, i)) ELSE names[i]]

Lists == UNION {[1 .. n -> GivenNames] : n \in 0 .. MaxNodes}

NamesInit ==
  /\ given \in [SourceIds -> Lists]
  /\ converted = [s \in SourceIds |-> <<>>] /\ merged = <<>>

\* subscription_to_provider, or shadowrocket_archive_to_provider; a source
\* without nodes is none.
Converts(s) ==
  /\ converted[s] # Renamed(given[s])
  /\ converted' = [converted EXCEPT ![s] = Renamed(given[s])]
  /\ UNCHANGED <<given, merged>>

Joined ==
  LET upTo[s \in 0 .. NumSources] == IF s = 0 THEN <<>> ELSE upTo[s - 1] \o converted[s]
  IN  upTo[NumSources]

\* The end of _refresh_shadowrocket_subscriptions.
MergesAll ==
  /\ \A s \in SourceIds : converted[s] = Renamed(given[s])
  /\ merged = <<>>
  /\ merged' = Renamed(Joined)
  /\ UNCHANGED <<given, converted>>

\* By the next refresh a source gives other names.
GivesOthers(s) ==
  /\ merged # <<>> /\ merged' = <<>>
  /\ \E names \in Lists : given' = [given EXCEPT ![s] = names]
  /\ converted' = [converted EXCEPT ![s] = <<>>]

NamesNext == MergesAll \/ \E s \in SourceIds : Converts(s) \/ GivesOthers(s)
NamesSpec == NamesInit /\ [][NamesNext]_namesVars

-----------------------------------------------------------------------------
(***************************************************************************)
(* Properties.                                                             *)
(***************************************************************************)

Distinct(names) == \A i, j \in DOMAIN names : names[i] = names[j] => i = j
Plain(names)    == \A i \in DOMAIN names : names[i].numbers = <<>>

\* The inductive invariant.
ConvertedInv ==
  /\ given \in [SourceIds -> Lists] /\ DOMAIN converted = SourceIds
  /\ \A s \in SourceIds : converted[s] \in {<<>>, Renamed(given[s])}

\* A source whose names carry no numbers is converted to names that differ.
SourceNamesDiffer == \A s \in SourceIds : Plain(given[s]) => Distinct(converted[s])

\* The names of a provider differ, as the inventory, whose key they are, needs
\* (test_deduplicates_node_names, tests/test_subscriptions.py:86).
ProviderNamesDiffer == Distinct(merged)

=============================================================================
