---- MODULE Attestation ----
(***************************************************************************)
(* The recorder's identity, the acceptances of responsibility, the         *)
(* attestation of the last change and the evidence bundle.  None of them   *)
(* is under a lock: the Stop hooks of several sessions, people who accept  *)
(* a change and tools that ask for evidence read and write the same files  *)
(* one after another.  A key pair is a number, and a signature made with   *)
(* the private half of a pair verifies under its public half alone.        *)
(***************************************************************************)
EXTENDS Naturals, FiniteSets, SequencesExt, Subsequences

CONSTANTS
  Hooks, People, Tools, \* the processes: Stop hooks, `accept`, `attest`/`evidence`
  Digests,              \* SHA-256 of the diffs the turns leave
  NoDigest, NoFile, Torn,
  Limit,                \* acceptances kept: 200 in the code
  Times,                \* bound: calls of one process
  Made,                 \* the identity was made before
  Alone,                \* a process starts when no other is under way
  Crashes               \* bound: processes that die half way

AttestationAssumption ==
  /\ Hooks \cap People = {} /\ Hooks \cap Tools = {} /\ People \cap Tools = {}
  /\ NoDigest \notin Digests /\ Limit \in Nat \ {0} /\ {Times, Crashes} \subseteq Nat
  /\ {Made, Alone} \subseteq BOOLEAN
  /\ Torn \notin Seq([digest : Digests, by : People, sig : Nat, keyid : Nat])

VARIABLES
  latest,      \* digest of the latest session in state.json
  receipt,     \* digest in receipt.json, NoDigest without one
  key, public, identity,  \* the three files of the identity, 0 when missing
  pairs,       \* key pairs generated
  store,       \* acceptances.json
  attestation, \* attestation.json
  bundle,      \* evidence.json
  pc, local, calls, crashes,
  consent      \* history: who accepted which digest

files == <<latest, receipt, key, public, identity, pairs, store, attestation, bundle>>
vars == <<files, pc, local, calls, crashes, consent>>

Procs == Hooks \cup People \cup Tools

(* What a process has read: the digest it works on, the subject, the       *)
(* digest the report is about, whom the report names, the pair whose       *)
(* identity it got, the pair it signed with, the acceptances it loaded.    *)
Fresh == [digest |-> NoDigest, subject |-> NoDigest, about |-> NoDigest, accepted |-> {},
          keyid |-> 0, sig |-> 0, loaded |-> << >>, accepting |-> FALSE, bundling |-> FALSE]

Go(p, at, what) == /\ pc' = [pc EXCEPT ![p] = at]
                   /\ local' = [local EXCEPT ![p] = what]
At(p, at) == pc[p] = at
Starts(p) == /\ At(p, "idle")
             /\ calls[p] < Times
             /\ Alone => \A q \in Procs : At(q, "idle")
             /\ calls' = [calls EXCEPT ![p] = @ + 1]

(* A Stop hook has completed the session and writes its receipt next.      *)
Stop(p, d) == /\ p \in Hooks /\ Starts(p)
              /\ latest' = d
              /\ Go(p, "receipt", [Fresh EXCEPT !.digest = d])
              /\ UNCHANGED <<receipt, key, public, identity, pairs, store, attestation, bundle, crashes, consent>>

(* The evidence bundle starts from a receipt of the state it reads.        *)
Evidence(p) == /\ p \in Tools /\ Starts(p)
               /\ Go(p, "receipt", [Fresh EXCEPT !.digest = latest, !.bundling = TRUE])
               /\ UNCHANGED <<files, crashes, consent>>

Attest(p) == /\ p \in Tools /\ Starts(p)
             /\ Go(p, "subject", Fresh)
             /\ UNCHANGED <<files, crashes, consent>>

(* A person accepts whatever change the receipt names at that moment.      *)
Accept(p) == /\ p \in People /\ Starts(p)
             /\ receipt # NoDigest
             /\ Go(p, "ensure", [Fresh EXCEPT !.digest = receipt, !.accepting = TRUE])
             /\ UNCHANGED <<files, crashes, consent>>

WriteReceipt(p) == /\ At(p, "receipt")
                   /\ receipt' = local[p].digest
                   /\ Go(p, "subject", local[p])
                   /\ UNCHANGED <<latest, key, public, identity, pairs, store, attestation, bundle, calls, crashes, consent>>

(* buildStatement refuses a receipt without a digest, and takes its subject from it. *)
Subject(p) == /\ At(p, "subject")
              /\ IF receipt = NoDigest
                 THEN Go(p, "idle", Fresh)
                 ELSE Go(p, "report", [local[p] EXCEPT !.subject = receipt])
              /\ UNCHANGED <<files, calls, crashes, consent>>

(* responsibilityReport reads the receipt for itself. *)
ReportOn(p) == receipt
Report(p) == /\ At(p, "report")
             /\ Go(p, "ensure", [local[p] EXCEPT !.about = ReportOn(p)])
             /\ UNCHANGED <<files, calls, crashes, consent>>

----
(* ensureIdentity: the identity is there when its record and its private   *)
(* key are; otherwise the three files are written anew, the record last.   *)
AfterEnsure(p) == IF local[p].accepting THEN "sign" ELSE "accepted"

Found(p) == /\ At(p, "ensure") /\ identity # 0 /\ key # 0
            /\ public' = IF public = 0 THEN identity ELSE public
            /\ Go(p, AfterEnsure(p), [local[p] EXCEPT !.keyid = identity])
            /\ UNCHANGED <<latest, receipt, key, identity, pairs, store, attestation, bundle, calls, crashes, consent>>

Generate(p) == /\ At(p, "ensure") /\ (identity = 0 \/ key = 0)
               /\ pairs' = pairs + 1
               /\ Go(p, "key", [local[p] EXCEPT !.keyid = pairs + 1])
               /\ UNCHANGED <<latest, receipt, key, public, identity, store, attestation, bundle, calls, crashes, consent>>

NewKey(p) == local[p].keyid
WriteKey(p) == /\ At(p, "key")
               /\ key' = NewKey(p)
               /\ Go(p, "public", local[p])
               /\ UNCHANGED <<latest, receipt, public, identity, pairs, store, attestation, bundle, calls, crashes, consent>>

WritePublic(p) == /\ At(p, "public")
                  /\ public' = local[p].keyid
                  /\ Go(p, "identity", local[p])
                  /\ UNCHANGED <<latest, receipt, key, identity, pairs, store, attestation, bundle, calls, crashes, consent>>

WriteIdentity(p) == /\ At(p, "identity")
                    /\ identity' = local[p].keyid
                    /\ Go(p, AfterEnsure(p), local[p])
                    /\ UNCHANGED <<latest, receipt, key, public, pairs, store, attestation, bundle, calls, crashes, consent>>

(* signBytes reads the private key after it got the identity. *)
Sign(p) == /\ At(p, "sign")
           /\ Go(p, IF local[p].accepting THEN "load" ELSE "seal", [local[p] EXCEPT !.sig = key])
           /\ UNCHANGED <<files, calls, crashes, consent>>

----
(* An acceptance replaces the one of the same person for the same digest;  *)
(* the file keeps the last Limit of them.                                  *)
Acceptance(p) == [digest |-> local[p].digest, by |-> p, sig |-> local[p].sig, keyid |-> local[p].keyid]
Renews(a, b) == a.by = b.by /\ a.digest = b.digest
Renewed(items, a) == LET all == Append(Sub(items, {i \in DOMAIN items : ~Renews(a, items[i])}), a)
                     IN SubSeq(all, IF Len(all) > Limit THEN Len(all) - Limit + 1 ELSE 1, Len(all))

Load(p) == /\ At(p, "load")
           /\ IF store = Torn THEN Go(p, "idle", Fresh)
                              ELSE Go(p, "open", [local[p] EXCEPT !.loaded = store])
           /\ UNCHANGED <<files, calls, crashes, consent>>

(* writeJson of the acceptances truncates the file, then writes it. *)
Truncate(p) == /\ At(p, "open")
               /\ store' = Torn
               /\ Go(p, "save", local[p])
               /\ UNCHANGED <<latest, receipt, key, public, identity, pairs, attestation, bundle, calls, crashes, consent>>

Save(p) == /\ At(p, "save")
           /\ store' = Renewed(local[p].loaded, Acceptance(p))
           /\ consent' = consent \cup {<<p, local[p].digest>>}
           /\ Go(p, "subject", Fresh)
           /\ UNCHANGED <<latest, receipt, key, public, identity, pairs, attestation, bundle, calls, crashes>>

(* The acceptances a report names: those of its digest that the recorder's *)
(* key verifies.                                                           *)
Counted(items, d, k) == {a.by : a \in {b \in ToSet(items) : b.digest = d /\ b.sig = k}}

(* responsibilityReport loads the acceptances after it got the identity.   *)
Accepted(p) == /\ At(p, "accepted")
               /\ IF store = Torn
                  THEN Go(p, "idle", Fresh)
                  ELSE Go(p, "sign", [local[p] EXCEPT !.accepted = Counted(store, local[p].about, local[p].keyid)])
               /\ UNCHANGED <<files, calls, crashes, consent>>

(* createAttestation publishes the identity as it finds it after signing.  *)
Seal(p) == /\ At(p, "seal")
           /\ attestation' = [subject |-> local[p].subject, about |-> local[p].about,
                              accepted |-> local[p].accepted, sig |-> local[p].sig, keyid |-> identity]
           /\ IF local[p].bundling THEN Go(p, "bundle", local[p]) ELSE Go(p, "idle", Fresh)
           /\ UNCHANGED <<latest, receipt, key, public, identity, pairs, store, bundle, calls, crashes, consent>>

(* The bundle holds the receipt it began with, its attestation and a       *)
(* report of its own.                                                      *)
Bundle(p) == /\ At(p, "bundle")
             /\ bundle' = IF store = Torn THEN bundle
                          ELSE [receipt |-> local[p].digest, subject |-> local[p].subject, about |-> receipt]
             /\ Go(p, "idle", Fresh)
             /\ UNCHANGED <<latest, receipt, key, public, identity, pairs, store, attestation, calls, crashes, consent>>

Crash(p) == /\ ~At(p, "idle") /\ crashes < Crashes
            /\ crashes' = crashes + 1
            /\ Go(p, "idle", Fresh)
            /\ UNCHANGED <<files, calls, consent>>

----
Init == /\ latest = NoDigest /\ receipt = NoDigest
        /\ pairs = IF Made THEN 1 ELSE 0
        /\ key = pairs /\ public = pairs /\ identity = pairs
        /\ store = << >> /\ attestation = NoFile /\ bundle = NoFile
        /\ pc = [p \in Procs |-> "idle"] /\ local = [p \in Procs |-> Fresh]
        /\ calls = [p \in Procs |-> 0] /\ crashes = 0 /\ consent = {}

Step(p) == \/ Accept(p) \/ Attest(p) \/ Evidence(p) \/ (\E d \in Digests : Stop(p, d))
           \/ WriteReceipt(p) \/ Subject(p) \/ Report(p)
           \/ Found(p) \/ Generate(p) \/ WriteKey(p) \/ WritePublic(p) \/ WriteIdentity(p)
           \/ Sign(p) \/ Load(p) \/ Truncate(p) \/ Save(p) \/ Accepted(p)
           \/ Seal(p) \/ Bundle(p) \/ Crash(p)
Next == \E p \in Procs : Step(p)
Spec == Init /\ [][Next]_vars

----
Quiet == \A p \in Procs : At(p, "idle")

(* Types, and no file names a key pair that was never generated.           *)
TypeOK == /\ {latest, receipt} \subseteq Digests \cup {NoDigest}
          /\ {key, public, identity} \subseteq 0 .. pairs
          /\ store # Torn => Len(store) <= Limit
          /\ consent \subseteq People \X Digests
          /\ identity # 0 => public # 0

(* Every attestation, and every acceptance in the file, carries a          *)
(* signature that its own public key verifies, and that the recorder's     *)
(* identity still verifies when nothing is under way.                      *)
SignaturesVerify ==
  /\ attestation # NoFile => attestation.sig = attestation.keyid
  /\ store # Torn => \A a \in ToSet(store) : a.sig = a.keyid
  /\ Quiet /\ store # Torn => \A a \in ToSet(store) : a.sig = identity

(* An attestation is about one change: the responsibility it reports is    *)
(* the responsibility for its subject; and so is an evidence bundle.       *)
OneChange == /\ attestation # NoFile => attestation.about = attestation.subject
             /\ bundle # NoFile => bundle.subject = bundle.receipt /\ bundle.about = bundle.receipt

(* When nothing is under way the attestation is that of the receipt, and   *)
(* names exactly the people who accepted that change.                      *)
AttestationCurrent ==
  Quiet /\ attestation # NoFile =>
    /\ attestation.subject = receipt
    /\ attestation.accepted = {p \in People : <<p, receipt>> \in consent}

(* Nobody is reported to have accepted a change they never accepted.       *)
OnlyConsented == attestation # NoFile =>
  \A p \in attestation.accepted : <<p, attestation.about>> \in consent

(* What a person accepted stays in the file: it holds one acceptance for   *)
(* each person and change, and none is missing until Limit is reached.     *)
AcceptancesKept == store # Torn =>
  LET held == {<<a.by, a.digest>> : a \in ToSet(store)}
  IN /\ held \subseteq consent
     /\ Cardinality(held) = Len(store)
     /\ Len(store) = Min({Limit, Cardinality(consent)})
====
