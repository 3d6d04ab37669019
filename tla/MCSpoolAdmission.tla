-------------------------- MODULE MCSpoolAdmission --------------------------
(* Small instances of SpoolAdmission for TLC.  A behaviour submits the work of *)
(* one of several offers, which the initial state chooses.                    *)
EXTENDS SpoolAdmission, TLC

CONSTANT Offers
VARIABLE offer

Work(k, o, i, m) == [key |-> k, origin |-> o, intent |-> i, body |-> o,
    device |-> "d1", deadline |-> 1, managed |-> m]

Receipt == Work("k1", "o1", "i1", FALSE)

One == {Receipt}
\* A receipt of the point of sale and a report the Controller sent, for one device.
Two == {Receipt, Work("k2", "o2", "i2", TRUE)}
\* A receipt, and the same receipt planned again under a new intent.
Replanned == {Receipt, Work("k2", "o1", "i2", FALSE)}
\* A key used twice, for two documents.
KeyReused == {Receipt, Work("k1", "o2", "i2", FALSE)}

JustOne == {One}
JustTwo == {Two}
JustReused == {KeyReused}
TwoOrReplanned == {Two, Replanned}

MCSubmissions == UNION Offers

OfOffer == /\ call' \in offer \cup {Nil}
           /\ \A s \in Submissions \ offer : answer'[s] = "none"
           /\ UNCHANGED offer

mcSpoolVars == <<spoolVars, offer>>
MCSpoolInit == offer \in Offers /\ SpoolInit
MCSpoolSpec == MCSpoolInit /\ [][SpoolNext /\ OfOffer]_mcSpoolVars

\* Storage references are random and interchangeable.
RefSymmetry == Permutations(Refs)
=============================================================================
