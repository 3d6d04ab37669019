-------------------------- MODULE TransportLinks --------------------------
(***************************************************************************)
(* The links of a universal transport and the choice of one for a message   *)
(* (unicast/universal/transport.rs, TransportLinks, and tx.rs).             *)
(*                                                                          *)
(* A link is [id, assoc, rel, prio, inbound]; assoc marks the best-effort   *)
(* half of a mixed link, which stands right after its main link.  prio is   *)
(* None or an inclusive range.                                              *)
(***************************************************************************)
EXTENDS Options
LOCAL INSTANCE SequencesExt

CONSTANTS TlPairs,      \* what may be added: <<link>> or <<link, associated link>>
          TlMax,        \* how many inbound links the transport takes
          TlMessages,   \* [rel, prio]
          TlMaxSteps    \* bound on the additions

VARIABLES tlLinks,      \* the array
          tlAdded,      \* additions so far, as the identifiers of the pairs
          tlSent        \* the last message scheduled and the link chosen

tlVars == <<tlLinks, tlAdded, tlSent>>

InRange(range, p) == range # None /\ range[1] <= p /\ p <= range[2]
RangeLen(range) == range[2] - range[1] + 1

\* select's first arm: a match of both, better than the one before only with a
\* smaller range.
TakesFull(m, l, x) ==
  /\ l.rel = x.rel /\ InRange(l.prio, x.prio)
  /\ m.range = None \/ RangeLen(m.range) > RangeLen(l.prio)

\* select: one pass over the links, then full before partial before any.
Select(links, x) ==
  LET Take(m, i) ==
        LET l == links[i] IN
        IF TakesFull(m, l, x) THEN [m EXCEPT !.full = i, !.range = l.prio]
        ELSE IF l.rel = x.rel /\ ~ InRange(l.prio, x.prio) /\ m.partial = None THEN [m EXCEPT !.partial = i]
        ELSE IF m.any = None THEN [m EXCEPT !.any = i] ELSE m
      m == FoldLeft(Take, [full |-> None, partial |-> None, any |-> None, range |-> None],
                    [i \in 1 .. Len(links) |-> i])
  IN IF m.full # None THEN m.full ELSE IF m.partial # None THEN m.partial ELSE m.any

\* nb_links_multilink: a pair counts once.
NbLinks == Cardinality({i \in DOMAIN tlLinks : tlLinks[i].inbound /\ ~ tlLinks[i].assoc})

\* push_link, after the limit of add_link; None where the transport may not count
\* (an outbound link).
PushLink(pair) ==
  /\ pair[1].id \notin tlAdded /\ Cardinality(tlAdded) < TlMaxSteps
  /\ pair[1].inbound => NbLinks < TlMax
  /\ tlLinks' = tlLinks \o pair
  /\ tlAdded' = tlAdded \cup {pair[1].id}
  /\ UNCHANGED tlSent

\* Fault: the half of a removed pair stays.
RemoveLinkAlone(id) ==
  \E i \in DOMAIN tlLinks :
    /\ tlLinks[i].id = id
    /\ tlLinks' = RemoveAt(tlLinks, i)
    /\ UNCHANGED <<tlAdded, tlSent>>

\* remove_link: an associated link takes the one before it along, a main link the
\* one after it if that is an associated one.
RemoveLink(id) ==
  \E i \in DOMAIN tlLinks :
    /\ tlLinks[i].id = id
    /\ LET rest == RemoveAt(tlLinks, i) IN
       tlLinks' = IF tlLinks[i].assoc THEN (IF i > 1 THEN RemoveAt(rest, i - 1) ELSE rest)
                  ELSE IF i <= Len(rest) /\ rest[i].assoc THEN RemoveAt(rest, i) ELSE rest
    /\ UNCHANGED <<tlAdded, tlSent>>

\* internal_schedule: without a link the message is dropped.  (The slot of a BlockFirst
\* message and the push to the link's pipeline are not part of it.)
TlSchedule(x) ==
  LET i == Select(tlLinks, x) IN
  /\ tlSent' = [msg |-> x, link |-> IF i = None THEN None ELSE tlLinks[i], among |-> tlLinks]
  /\ UNCHANGED <<tlLinks, tlAdded>>

TlInit == tlLinks = <<>> /\ tlAdded = {} /\ tlSent = [msg |-> None, link |-> None, among |-> <<>>]
TlIds == UNION {{pair[i].id : i \in DOMAIN pair} : pair \in TlPairs}
TlNext ==
  \/ \E pair \in TlPairs : PushLink(pair)
  \/ \E id \in TlIds : RemoveLink(id)
  \/ \E x \in TlMessages : TlSchedule(x)

---------------------------------------------------------------------------
(* Properties                                                               *)

\* The halves of a mixed link stand next to each other and go together ("This order is
\* guaranteed at insertion, and assumed at removal").
Whole(links, pair) ==
  LET at == {i \in DOMAIN links : \E j \in DOMAIN pair : links[i] = pair[j]} IN
  /\ Cardinality(at) \in {0, Len(pair)}
  /\ \A i, j \in at : i < j => (j = i + 1 /\ links[j].assoc)

\* However links came and went, a message is scheduled among whole mixed links, never
\* among the half of one that was removed, and on a best match of them, as select's
\* comment has it: a link of its reliability whose range holds its priority, with the
\* smallest such range; else one of its reliability; else any; and it is dropped only
\* when there is no link.
SelectIsBest ==
  LET among == {tlSent.among[i] : i \in DOMAIN tlSent.among}
      x == tlSent.msg
      partial == {l \in among : l.rel = x.rel}
      full == {l \in partial : InRange(l.prio, x.prio)} IN
  x # None =>
    /\ \A pair \in TlPairs : Whole(tlSent.among, pair)
    /\ IF among = {} THEN tlSent.link = None
       ELSE IF full # {} THEN /\ tlSent.link \in full
                              /\ \A l \in full : RangeLen(tlSent.link.prio) <= RangeLen(l.prio)
       ELSE tlSent.link \in IF partial # {} THEN partial ELSE among
=============================================================================
