----------------------------- MODULE KeyServices -----------------------------
(***************************************************************************)
(* What the Controller does with OpenBao: the client with its cached       *)
(* token, the signing of an authority bundle for one Agent with four       *)
(* approved Transit keys, and the wrapping of Managed Payload keys.        *)
(*                                                                         *)
(* Several tasks share the client.  Meanwhile an administrator rotates,    *)
(* replaces or retires keys and revokes tokens, and time passes.           *)
(***************************************************************************)
EXTENDS Options

CONSTANTS KsTasks,    \* tasks sharing the OpenBao client
          KsWorlds,   \* what they do, with which draft and approval
          KsLimits,   \* 128 signers, 256 profiles, 1024 of each other record
          KsMaxTime   \* the clock stops here

VARIABLES ksWorld, bao, cache, work, disk, ksNow

ksVars == <<ksWorld, bao, cache, work, disk, ksNow>>

Purposes == {"root", "profile", "matrix", "binding"}
NoFile == [by |-> None, whole |-> FALSE, sigs |-> {}, checked |-> 0]

Current(from, to, t) == from <= t /\ t < to

-----------------------------------------------------------------------------
(* Approval, draft and bundle                                              *)

\* A signer that is active at time t.
SignerCurrent(s, t) == s.active /\ Current(s.from, s.to, t)

\* AuthorityApproval::validate(): four distinct, current Controller keys and
\* Agent keys that share none of their material.
ApprovalValid(a, t) ==
  /\ \A p, q \in Purposes : p # q => /\ a.keys[p].name # a.keys[q].name
                                     /\ a.keys[p].signer.key # a.keys[q].signer.key
  /\ \A p \in Purposes : /\ a.keys[p].signer.purpose = p
                         /\ SignerCurrent(a.keys[p].signer, t)
  /\ \A s \in a.agents : /\ s.purpose \in {"observation", "evidence"}
                         /\ \A p \in Purposes : a.keys[p].signer.key # s.key
  /\ \A s, r \in a.agents : s # r => s.key # r.key

\* The signers a manifest lists: all but the root.
ManifestSigners(a) == {a.keys[p].signer : p \in Purposes \ {"root"}} \cup a.agents

\* AuthorityManifest::validate(): a bounded number of records, none of them
\* twice, no key twice, every binding in scope.
ManifestValid(d, a) ==
  /\ Cardinality(ManifestSigners(a)) <= KsLimits.signers
  /\ Len(d.profiles) <= KsLimits.profiles /\ Len(d.rows) <= KsLimits.rows
  /\ Len(d.bindings) <= KsLimits.rows
  /\ Cardinality(d.evidence) <= KsLimits.rows /\ Cardinality(d.activations) <= KsLimits.rows
  /\ \A s, r \in ManifestSigners(a) : s # r => s.id # r.id
  /\ \A i, j \in DOMAIN d.bindings : d.bindings[i].id = d.bindings[j].id => i = j
  /\ \A i, j \in DOMAIN d.rows : d.rows[i].id = d.rows[j].id => i = j
  /\ \A i, j \in DOMAIN d.profiles : d.profiles[i] = d.profiles[j] => i = j
  /\ \A e, f \in d.evidence : e.id = f.id => e = f
  /\ \A i \in DOMAIN d.bindings : d.bindings[i].scope = d.scope

\* verify() of one signed record: the signer's key, now, over these bytes.
RecordVerifies(sig, s, t) == SignerCurrent(s, t) /\ sig.key = s.key /\ sig.purpose = s.purpose

EvidenceVerifies(d, a, t) ==
  \A e \in d.evidence :
    \E s \in a.agents : RecordVerifies([key |-> e.key, purpose |-> "evidence"], s, t)

\* prepare(): everything but the signatures.
Prepared(d, a, t) ==
  /\ ApprovalValid(a, t)
  /\ d.agent = a.agent /\ d.scope = a.scope
  /\ Current(d.from, d.to, t)
  /\ a.keys["root"].signer.id \notin {s.id : s \in ManifestSigners(a)}
  /\ ManifestValid(d, a)
  /\ EvidenceVerifies(d, a, t)

\* verify_activations(): each activation names a binding, its evidence, its
\* profile with the capability, and its certification row, and they agree.
ActivationsHold(d, t) ==
  \A act \in d.activations :
    \E i \in DOMAIN d.bindings, j \in DOMAIN d.profiles, k \in DOMAIN d.rows :
    \E e \in d.evidence, cap \in d.profiles[j].caps :
      LET b == d.bindings[i]
          p == d.profiles[j]
          r == d.rows[k]
      IN  /\ b.id = act.binding /\ e.id = act.evidence
          /\ b.profile = p.digest /\ b.row = r.id /\ cap.id = b.cap
          /\ \A other \in d.activations \ {act} : \A m \in DOMAIN d.bindings :
               d.bindings[m].id = other.binding => d.bindings[m].purpose # b.purpose
          /\ cap.options = b.options /\ r.driver = p.driver
          /\ e.binding = b.id /\ e.passed /\ e.row = r.id /\ e.output >= cap.output
          /\ {r.device, e.device} = {b.device}
          /\ {r.cap, e.cap} = {b.cap}
          /\ {r.profile, e.profile} = {b.profile}
          /\ Current(p.from, p.to, t) /\ Current(r.from, r.to, t)
          /\ Current(e.from, e.to, t)

\* AuthorityBundle::verify(): the root signed this manifest, its signers
\* signed every record, the lifetime is current and the activations hold.
BundleVerifies(d, a, sigs, t) ==
  /\ d.agent = a.agent /\ d.scope = a.scope
  /\ Current(d.from, d.to, t)
  /\ \A sig \in sigs : RecordVerifies(sig, a.keys[sig.purpose].signer, t)
  /\ \E sig \in sigs : sig.purpose = "root" /\ sig.over = {s.key : s \in sigs \ {sig}}
  /\ EvidenceVerifies(d, a, t)
  /\ ActivationsHold(d, t)

-----------------------------------------------------------------------------
(* The requests of a task, in order                                        *)

Ask4(kind, p, rec) == [kind |-> kind, p |-> p, rec |-> rec]

\* A record is signed after the metadata of its key is read again.
Signing(p, recs) ==
  [i \in 1..(2 * recs) |-> Ask4(IF i % 2 = 1 THEN "meta" ELSE "sign", p, (i + 1) \div 2)]

\* sign_bundle(): load the four keys, sign the records, then the revision.
SignPlan(d) ==
  <<Ask4("meta", "root", 0), Ask4("meta", "profile", 0),
    Ask4("meta", "matrix", 0), Ask4("meta", "binding", 0)>>
  \o Signing("profile", Len(d.profiles)) \o Signing("matrix", Len(d.rows))
  \o Signing("binding", Len(d.bindings)) \o Signing("root", 1)

Plan(c) == CASE ksWorld.does[c] = "sign" -> SignPlan(ksWorld.draft)
             [] ksWorld.does[c] = "seal" -> <<Ask4("encrypt", "payload", c)>>
             [] ksWorld.does[c] = "open" -> <<Ask4("decrypt", "payload", c)>>

KsGo(c, at) == work' = [work EXCEPT ![c].at = at]
KsEnd(c, result) == work' = [work EXCEPT ![c].at = "done", ![c].result = result]

\* What follows the request that was answered.
KsAdvanced(w, c) ==
  IF w[c].n < Len(Plan(c)) THEN [w EXCEPT ![c].at = "token", ![c].n = @ + 1]
  ELSE [w EXCEPT ![c].at = CASE ksWorld.does[c] = "sign" -> "verify"
                             [] ksWorld.does[c] = "seal" -> "seal"
                             [] ksWorld.does[c] = "open" -> "opened"]

-----------------------------------------------------------------------------
(* The client                                                              *)

\* token(): the mutex is held through a login; a token is renewed after four
\* fifths of its lease.
KsToken(c) ==
  /\ work[c].at = "token" /\ cache.lock = None
  /\ IF cache.fresh
     THEN /\ work' = [work EXCEPT ![c].at = "send", ![c].token = cache.token]
          /\ UNCHANGED cache
     ELSE cache' = [cache EXCEPT !.lock = c] /\ KsGo(c, "login")
  /\ UNCHANGED <<ksWorld, bao, disk, ksNow>>

KsLogin(c) ==
  /\ work[c].at = "login"
  /\ \/ /\ bao.up
        /\ bao' = [bao EXCEPT !.issued = @ + 1, !.valid = @ \cup {bao.issued + 1}]
        /\ cache' = [token |-> bao.issued + 1, fresh |-> TRUE, lock |-> None]
        /\ work' = [work EXCEPT ![c].at = "send", ![c].token = bao.issued + 1]
     \/ /\ ~bao.up \/ ksWorld.badIdentity
        /\ cache' = [cache EXCEPT !.lock = None]
        /\ KsEnd(c, "unavailable") /\ UNCHANGED bao
  /\ UNCHANGED <<ksWorld, disk, ksNow>>

\* verify_metadata(): the approved version exists with the approved key.
MetadataHolds(k, approved) ==
  /\ k.sound /\ k.min <= approved.version /\ approved.version <= Len(k.vers)
  /\ k.vers[approved.version] = approved.signer.key

\* sign(): OpenBao signs with the version asked for; the signature counts
\* only if the approved public key verifies it.
SignatureCounts(k, approved) ==
  /\ k.min <= approved.version /\ approved.version <= Len(k.vers)
  /\ k.vers[approved.version] = approved.signer.key

\* The root signs the digest of the manifest with its signatures.
Signature(c, r, k, approved) ==
  [purpose |-> r.p, rec |-> r.rec, key |-> k.vers[approved.version],
   over |-> IF r.p = "root" THEN {s.key : s \in work[c].sigs} ELSE {}]

\* Transit wraps with its newest version, and unwraps with the version the
\* wrapped key names unless that version is retired.
Wrapped(k) == Len(k.vers)
Unwraps(k, row) == k.min <= row.wrapped

\* What an authenticated request does with the answer.
KsAnswer(c, r) ==
  LET a == IF r.p \in Purposes THEN ksWorld.approval.keys[r.p] ELSE [name |-> "payload"]
      k == bao.keys[a.name]
      row == disk.rows[c]
  IN  CASE r.kind = "meta" ->
             IF MetadataHolds(k, a) THEN KsAdvanced(work, c) ELSE
               [work EXCEPT ![c].at = "done", ![c].result = "unapproved"]
        [] r.kind = "sign" ->
             IF SignatureCounts(k, a)
             THEN KsAdvanced([work EXCEPT ![c].sigs = @ \cup {Signature(c, r, k, a)},
                                          ![c].signed = ksNow], c)
             ELSE [work EXCEPT ![c].at = "done", ![c].result = "unapproved"]
        [] r.kind = "encrypt" -> KsAdvanced([work EXCEPT ![c].wrapped = Wrapped(k)], c)
        [] r.kind = "decrypt" ->
             IF Unwraps(k, row) THEN KsAdvanced(work, c)
             ELSE [work EXCEPT ![c].at = "done", ![c].result = "unavailable"]

\* request(): 401 or 403 drops whatever token is cached by then.
DropToken(c) ==
  /\ work[c].at = "refused" /\ cache.lock = None
  /\ cache' = [cache EXCEPT !.token = 0, !.fresh = FALSE]
  /\ KsEnd(c, "refused")
  /\ UNCHANGED <<ksWorld, bao, disk, ksNow>>

KsRequest(c) ==
  /\ work[c].at = "send"
  /\ \/ ~bao.up /\ KsEnd(c, "unavailable")
     \/ bao.up /\ work[c].token \notin bao.valid /\ KsGo(c, "refused")
     \/ bao.up /\ work[c].token \in bao.valid /\ work' = KsAnswer(c, Plan(c)[work[c].n])
  /\ UNCHANGED <<ksWorld, bao, cache, disk, ksNow>>

-----------------------------------------------------------------------------
(* The tasks                                                               *)

\* sign_bundle_files(): read both documents, take the time, prepare.
ReadDocuments(c) ==
  /\ work[c].at = "idle" /\ ksWorld.does[c] = "sign"
  /\ \/ ksWorld.unreadable /\ KsEnd(c, "bad_request")
     \/ /\ ~ksWorld.unreadable /\ Prepared(ksWorld.draft, ksWorld.approval, ksNow)
        /\ work' = [work EXCEPT ![c].at = "token", ![c].started = ksNow]
     \/ /\ ~ksWorld.unreadable /\ ~Prepared(ksWorld.draft, ksWorld.approval, ksNow)
        /\ KsEnd(c, "bad_request")
  /\ UNCHANGED <<ksWorld, bao, cache, disk, ksNow>>

\* Both checks of the signed bundle at the time the signing started.
VerifyBundleOnce(c) ==
  /\ work[c].at = "verify"
  /\ IF BundleVerifies(ksWorld.draft, ksWorld.approval, work[c].sigs, work[c].started)
     THEN work' = [work EXCEPT ![c].at = "create", ![c].checked = work[c].started]
     ELSE KsEnd(c, "bad_request")
  /\ UNCHANGED <<ksWorld, bao, cache, disk, ksNow>>

\* The signed bundle is verified at the time signing started and again now.
VerifyBundle(c) ==
  /\ work[c].at = "verify"
  /\ IF \A t \in {work[c].started, ksNow} :
          BundleVerifies(ksWorld.draft, ksWorld.approval, work[c].sigs, t)
     THEN work' = [work EXCEPT ![c].at = "create", ![c].checked = ksNow]
     ELSE KsEnd(c, "bad_request")
  /\ UNCHANGED <<ksWorld, bao, cache, disk, ksNow>>

\* write_bundle() fails: the file exists, or the write fails and is removed.
WriteFails(c) ==
  /\ \/ work[c].at = "create" /\ disk.file # NoFile /\ UNCHANGED disk
     \/ work[c].at = "write" /\ disk' = [disk EXCEPT !.file = NoFile]
  /\ KsEnd(c, "failed")
  /\ UNCHANGED <<ksWorld, bao, cache, ksNow>>

\* write_bundle(): a new file, written and synchronised.
WriteBundle(c) ==
  /\ \/ /\ work[c].at = "create" /\ disk.file = NoFile
        /\ disk' = [disk EXCEPT !.file = [by |-> c, whole |-> FALSE,
             sigs |-> work[c].sigs, checked |-> work[c].checked]]
        /\ KsGo(c, "write")
     \/ /\ work[c].at = "write"
        /\ disk' = [disk EXCEPT !.file.whole = TRUE]
        /\ KsEnd(c, "ok")
  /\ UNCHANGED <<ksWorld, bao, cache, ksNow>>

\* prepare() and seal(): the data key is wrapped, then the payload sealed.
StartPayload(c) ==
  /\ work[c].at = "idle"
  /\ \/ ksWorld.does[c] = "seal" /\ disk.rows[c].wrapped = 0 /\ KsGo(c, "token")
     \/ /\ ksWorld.does[c] = "open" /\ disk.rows[c].wrapped > 0
        /\ IF disk.rows[c].version = disk.rows[c].wrapped THEN KsGo(c, "token")
                                                          ELSE KsEnd(c, "mismatch")
  /\ UNCHANGED <<ksWorld, bao, cache, disk, ksNow>>

\* The row records the version named by the wrapped key it holds.
SealPayload(c) ==
  /\ work[c].at = "seal"
  /\ disk' = [disk EXCEPT !.rows[c] = [wrapped |-> work[c].wrapped,
                                       version |-> work[c].wrapped]]
  /\ work' = [work EXCEPT ![c].at = "sealed"]
  /\ UNCHANGED <<ksWorld, bao, cache, ksNow>>

\* A later dispatch opens the row; open() checks it before it asks OpenBao.
OpenPayload(c) ==
  /\ \/ work[c].at = "opened" /\ KsEnd(c, "ok") /\ UNCHANGED ksWorld
     \/ /\ work[c].at = "sealed"
        /\ ksWorld' = [ksWorld EXCEPT !.does[c] = "open"]
        /\ work' = [work EXCEPT ![c].at = "idle", ![c].n = 1]
  /\ UNCHANGED <<bao, cache, disk, ksNow>>

-----------------------------------------------------------------------------
(* The administrator, the lease and the clock                              *)

Administer ==
  /\ ksWorld.admin > 0
  /\ ksWorld' = [ksWorld EXCEPT !.admin = @ - 1]
  /\ \/ \E k \in ksWorld.touched : bao' = [bao EXCEPT !.made = @ + 1,
          !.keys[k].vers = Append(@, bao.made + 1)]
     \/ \E k \in ksWorld.touched \ {"payload"} : bao' = [bao EXCEPT !.made = @ + 1,
          !.keys[k].vers = [@ EXCEPT ![1] = bao.made + 1]]
     \/ \E k \in ksWorld.touched \ {"payload"} : bao' = [bao EXCEPT !.keys[k].min = 2]
     \/ bao' = [bao EXCEPT !.valid = {}]
     \/ bao' = [bao EXCEPT !.up = ~@]
  /\ UNCHANGED <<cache, work, disk, ksNow>>

TokenAges ==
  /\ cache.fresh /\ ksWorld.admin > 0
  /\ ksWorld' = [ksWorld EXCEPT !.admin = @ - 1]
  /\ cache' = [cache EXCEPT !.fresh = FALSE]
  /\ UNCHANGED <<bao, work, disk, ksNow>>

KsTick ==
  /\ ksNow < KsMaxTime /\ ksNow' = ksNow + 1
  /\ UNCHANGED <<ksWorld, bao, cache, work, disk>>

-----------------------------------------------------------------------------

KsInit ==
  /\ ksWorld \in KsWorlds
  /\ bao = [up |-> TRUE, issued |-> 0, valid |-> {}, made |-> 10,
            keys |-> ksWorld.keys]
  /\ cache = [token |-> 0, fresh |-> FALSE, lock |-> None]
  /\ work = [c \in KsTasks |-> [at |-> "idle", n |-> 1, token |-> 0, sigs |-> {},
               started |-> 0, signed |-> 0, checked |-> 0, wrapped |-> 0,
               result |-> "none"]]
  /\ disk = [file |-> NoFile, rows |-> [c \in KsTasks |-> [wrapped |-> 0, version |-> 0]]]
  /\ ksNow = 0

KsNext ==
  \/ \E c \in KsTasks :
       \/ KsToken(c) \/ KsLogin(c) \/ KsRequest(c) \/ DropToken(c)
       \/ ReadDocuments(c) \/ VerifyBundle(c) \/ WriteFails(c) \/ WriteBundle(c)
       \/ StartPayload(c) \/ SealPayload(c) \/ OpenPayload(c)
  \/ Administer \/ TokenAges \/ KsTick

KsSpec == KsInit /\ [][KsNext]_ksVars

-----------------------------------------------------------------------------
(* Properties                                                              *)

\* A bundle that reaches the output file carries only signatures of the
\* approved keys, whatever the administrator did to the Transit keys between
\* the metadata read and the signature, and it was found current at a time no
\* earlier than its last signature.
PublishedIsApproved ==
  disk.file.whole =>
    LET c == disk.file.by
    IN  /\ \A s \in disk.file.sigs :
             s.key = ksWorld.approval.keys[s.purpose].signer.key
        /\ disk.file.checked >= work[c].signed
        /\ Current(ksWorld.draft.from, ksWorld.draft.to, disk.file.checked)

=============================================================================
