------------------------------ MODULE OwnedLock ------------------------------
(***************************************************************************)
(* The owner-verified lock of src/src/portal-memory-lock.mjs, one file     *)
(* system call per step.  A lock is a directory with an `owner` file that  *)
(* names one instance: process, incarnation, random token.  It is renamed  *)
(* into place with its owner, and removed in two calls: unlink the owner,  *)
(* rmdir the directory.  The lock of a process that no longer runs is      *)
(* evicted under a claim, a lock of the same kind named after the evicted  *)
(* instance; the claim of an evictor that died is evicted the same way.    *)
(*                                                                         *)
(* A recycled PID is another process here: the incarnation in the token    *)
(* tells them apart.  That a process no longer runs is not always proved   *)
(* at once, and never believed without a proof.                            *)
(***************************************************************************)
EXTENDS Naturals, Sequences, FiniteSets

CONSTANTS
  Procs,      \* processes that use the lock
  MaxDeaths,  \* bound: how many of them may die
  MaxTokens,  \* bound: tokens of one process in use at the same time
  AlwaysProved, \* a death is proved by the first probe (the PID is free)
  None

ASSUME LockAssumption ==
  /\ None \notin Procs
  /\ MaxDeaths \in Nat
  /\ MaxTokens \in Nat \ {0}
  /\ AlwaysProved \in BOOLEAN

VARIABLES
  dir,   \* each lock directory: Absent, Empty (no owner file), or its owner
  proc   \* what each process is doing

vars == <<dir, proc>>

Tokens == Procs \X (1 .. MaxTokens)
NoToken == <<None, 0>>
Absent == <<None, 1>>
Empty == <<None, 2>>

Lock == <<None, 3>>
\* The claim on an instance is named after it; a token is ever in one directory.
Claim(token) == token
Paths == Tokens \cup {Lock}

\* readOwner: none when the lock or its owner file is absent.
OwnerUnchecked(path) == dir[path]            \* mutant: an absent owner is returned
Owner(path) == IF dir[path] \in Tokens THEN dir[path] ELSE NoToken

\* One call of tryEvict: remove `file` if it still holds `content`.
Frame == [step : {"claim", "held", "judge", "reclaim", "child", "again", "check",
                  "unlink", "rmdir", "own", "unclaim", "rmclaim"},
          file : Paths, content : Tokens, token : Tokens,
          held : Tokens \cup {NoToken}, ok : BOOLEAN]

\* stack: the nested calls of tryEvict, the innermost first.
ProcState == [pc : {"idle", "create", "read", "judge", "reclaim", "evict", "inside",
                    "unlink", "rmdir", "dead"},
              token : Tokens \cup {NoToken},
              seen : Tokens \cup {NoToken},
              stack : Seq(Frame)]

Fresh == [pc |-> "idle", token |-> NoToken, seen |-> NoToken, stack |-> <<>>]

Alive(p) == proc[p].pc # "dead"
\* ownerGone: only a process that provably no longer runs.
GoneEver(token) == TRUE                      \* mutant: evicted while it lives
Gone(token) == ~Alive(token[1])

\* A token nothing in the system still names, the first one: tokens are random.
InUse(token) ==
  \/ dir[Claim(token)] # Absent
  \/ \E path \in Paths : dir[path] = token
  \/ \E p \in Procs :
       \/ token \in {proc[p].token, proc[p].seen}
       \/ \E i \in DOMAIN proc[p].stack :
            token \in {proc[p].stack[i].content, proc[p].stack[i].token, proc[p].stack[i].held}

NewToken(p, token) ==
  \E i \in 1 .. MaxTokens :
    /\ token = <<p, i>> /\ ~InUse(<<p, i>>)
    /\ \A j \in 1 .. (i - 1) : InUse(<<p, j>>)

-----------------------------------------------------------------------------
(* File system calls *)

\* tryCreate: the directory is renamed into place with its owner.  Rename fails
\* on a directory with an owner; on one without, it succeeds or not, by platform.
CanCreate(path) == dir[path] \in {Absent, Empty}
MustCreate(path) == dir[path] = Absent
Create(path, token) == dir' = [dir EXCEPT ![path] = token]

\* unlink of the owner file, whoever's it is; then rmdir, of an empty directory only.
Unlink(path) == dir' = [dir EXCEPT ![path] = IF @ \in Tokens THEN Empty ELSE @]
Rmdir(path) == dir' = [dir EXCEPT ![path] = IF @ = Empty THEN Absent ELSE @]

Goto(p, step) == proc' = [proc EXCEPT ![p].pc = step]

-----------------------------------------------------------------------------
(* acquireOwnedLock *)

Start(p) ==
  /\ proc[p].pc = "idle"
  /\ \E token \in Tokens :
       /\ NewToken(p, token)
       /\ proc' = [proc EXCEPT ![p].pc = "create", ![p].token = token]
  /\ UNCHANGED dir

TryCreate(p) ==
  /\ proc[p].pc = "create"
  /\ \/ /\ CanCreate(Lock)
        /\ Create(Lock, proc[p].token)
        /\ Goto(p, "inside")
     \/ /\ ~MustCreate(Lock)
        /\ Goto(p, "read")
        /\ UNCHANGED dir

ReadOwner(p) ==
  /\ proc[p].pc = "read"
  /\ proc' = [proc EXCEPT ![p].seen = Owner(Lock),
                          ![p].pc = IF Owner(Lock) = NoToken THEN "reclaim" ELSE "judge"]
  /\ UNCHANGED dir

ReclaimEmpty(p) ==
  /\ proc[p].pc = "reclaim"
  /\ Rmdir(Lock)
  /\ Goto(p, "create")

NewFrame(file, content, token) ==
  [step |-> "claim", file |-> file, content |-> content, token |-> token,
   held |-> NoToken, ok |-> FALSE]

\* abandoned: the lock of a process that may still run is left alone, and so is
\* one whose end is not proved: the cheap probe of the first 500 ms, a start time
\* that cannot be read.
MayLeave(token) == Gone(token) => ~AlwaysProved

LeaveHeld(p) ==
  /\ proc[p].pc = "judge"
  /\ MayLeave(proc[p].seen)
  /\ proc' = [proc EXCEPT ![p].pc = "create", ![p].seen = NoToken]
  /\ UNCHANGED dir

JudgeGone(p) ==
  /\ proc[p].pc = "judge"
  /\ Gone(proc[p].seen)
  /\ \E token \in Tokens :
       /\ NewToken(p, token)
       /\ proc' = [proc EXCEPT ![p].pc = "evict", ![p].seen = NoToken,
                     ![p].stack = <<NewFrame(Lock, proc[p].seen, token)>>]
  /\ UNCHANGED dir

\* The lock stayed busy for 3 s; until then it is polled every 10 ms.
GiveUp(p) ==
  /\ proc[p].pc = "create"
  /\ proc' = [proc EXCEPT ![p] = Fresh]
  /\ UNCHANGED dir

-----------------------------------------------------------------------------
(* The release *)

\* The work is done.  Never remove a lock that is no longer ours.
Leave(p) ==
  /\ proc[p].pc = "inside"
  /\ IF Owner(Lock) = proc[p].token THEN Goto(p, "unlink")
                                    ELSE proc' = [proc EXCEPT ![p] = Fresh]
  /\ UNCHANGED dir

UnlinkOwn(p) ==
  /\ proc[p].pc = "unlink"
  /\ Unlink(Lock)
  /\ Goto(p, "rmdir")

RmdirOwn(p) ==
  /\ proc[p].pc = "rmdir"
  /\ Rmdir(Lock)
  /\ proc' = [proc EXCEPT ![p] = Fresh]

-----------------------------------------------------------------------------
(* tryEvict *)

Top(p) == proc[p].stack[1]
At(p, step) == proc[p].pc = "evict" /\ Top(p).step = step
FrameTo(p, step) == proc' = [proc EXCEPT ![p].stack[1].step = step]

\* False unwinds every nested call: each was waiting for this one.
Fails(p) == proc' = [proc EXCEPT ![p].pc = "create", ![p].stack = <<>>]
Succeeds(p) ==
  IF Len(proc[p].stack) = 1 THEN Fails(p)
  ELSE proc' = [proc EXCEPT ![p].stack = [Tail(@) EXCEPT ![1].step = "again"]]

\* tryCreate of the claim, before and after a dead evictor's claim was recovered.
NoClaim(p) == UNCHANGED dir /\ FrameTo(p, "check")   \* mutant: evicts without a claim
ClaimTaken(p) ==
  /\ CanCreate(Claim(Top(p).content))
  /\ Create(Claim(Top(p).content), Top(p).token)
  /\ FrameTo(p, "check")

TakeClaim(p) ==
  /\ At(p, "claim")
  /\ \/ ClaimTaken(p)
     \/ ~MustCreate(Claim(Top(p).content)) /\ FrameTo(p, "held") /\ UNCHANGED dir

TakeClaimAgain(p) ==
  /\ At(p, "again")
  /\ \/ ClaimTaken(p)
     \/ ~MustCreate(Claim(Top(p).content)) /\ Fails(p) /\ UNCHANGED dir

ReadClaim(p) ==
  /\ At(p, "held")
  /\ LET held == Owner(Claim(Top(p).content)) IN
       proc' = [proc EXCEPT ![p].stack[1].held = held,
                  ![p].stack[1].step = IF held = NoToken THEN "reclaim" ELSE "judge"]
  /\ UNCHANGED dir

ReclaimClaim(p) ==
  LET claim == Claim(Top(p).content) IN
  /\ At(p, "reclaim")
  /\ Rmdir(claim)
  /\ IF dir[claim] = Empty THEN FrameTo(p, "again") ELSE Fails(p)

ClaimStays(p) == FALSE                       \* mutant: claims are never evicted
ClaimAbandoned(p) == Gone(Top(p).held)

\* The claim's owner works on it, or is not proved to have died.
LeaveClaim(p) ==
  /\ At(p, "judge")
  /\ ClaimAbandoned(p) => ~AlwaysProved
  /\ Fails(p)
  /\ UNCHANGED dir

\* The claim's owner died: its claim is evicted, one level down.
JudgeClaimGone(p) ==
  /\ At(p, "judge")
  /\ ClaimAbandoned(p)
  /\ \E token \in Tokens :
       /\ NewToken(p, token)
       /\ proc' = [proc EXCEPT ![p].stack =
            <<NewFrame(Claim(Top(p).content), Top(p).held, token),
              [Top(p) EXCEPT !.step = "child", !.held = NoToken]>> \o Tail(@)]
  /\ UNCHANGED dir

\* Already recovered, possibly replaced by a live lock?
Unchecked(p) == TRUE                         \* mutant: not read again
StillAbandoned(p) == Owner(Top(p).file) = Top(p).content

Check(p) ==
  /\ At(p, "check")
  /\ FrameTo(p, IF StillAbandoned(p) THEN "unlink" ELSE "own")
  /\ UNCHANGED dir

EvictUnlink(p) ==
  /\ At(p, "unlink")
  /\ Unlink(Top(p).file)
  /\ FrameTo(p, "rmdir")

EvictRmdir(p) ==
  /\ At(p, "rmdir")
  /\ Rmdir(Top(p).file)
  /\ proc' = [proc EXCEPT ![p].stack[1].step = "own", ![p].stack[1].ok = TRUE]

Returns(p) == IF Top(p).ok THEN Succeeds(p) ELSE Fails(p)

\* The claim is removed if it still is this one's.
VerifyClaim(p) ==
  /\ At(p, "own")
  /\ IF Owner(Claim(Top(p).content)) = Top(p).token THEN FrameTo(p, "unclaim")
                                                    ELSE Returns(p)
  /\ UNCHANGED dir

UnlinkClaim(p) ==
  /\ At(p, "unclaim")
  /\ Unlink(Claim(Top(p).content))
  /\ FrameTo(p, "rmclaim")

RmdirClaim(p) ==
  /\ At(p, "rmclaim")
  /\ Rmdir(Claim(Top(p).content))
  /\ Returns(p)

-----------------------------------------------------------------------------

\* A process dies between any two calls.
Die(p) ==
  /\ Alive(p)
  /\ Cardinality({q \in Procs : ~Alive(q)}) < MaxDeaths
  /\ proc' = [proc EXCEPT ![p] = [Fresh EXCEPT !.pc = "dead"]]
  /\ UNCHANGED dir

Init ==
  /\ dir = [path \in Paths |-> Absent]
  /\ proc = [p \in Procs |-> Fresh]

Acquiring(p) ==
  \/ TryCreate(p) \/ ReadOwner(p) \/ ReclaimEmpty(p) \/ LeaveHeld(p) \/ JudgeGone(p)
  \/ GiveUp(p)

Releasing(p) == Leave(p) \/ UnlinkOwn(p) \/ RmdirOwn(p)

Evicting(p) ==
  \/ TakeClaim(p) \/ TakeClaimAgain(p) \/ ReadClaim(p) \/ ReclaimClaim(p)
  \/ LeaveClaim(p) \/ JudgeClaimGone(p) \/ Check(p) \/ EvictUnlink(p) \/ EvictRmdir(p)
  \/ VerifyClaim(p) \/ UnlinkClaim(p) \/ RmdirClaim(p)

Step(p) == Start(p) \/ Acquiring(p) \/ Evicting(p) \/ Releasing(p)

Next == \E p \in Procs : Step(p) \/ Die(p)

\* A live process goes on with what it began; it need not come back for the lock,
\* and its work inside ends (every command and request has a time limit).
Fairness ==
  \A p \in Procs : WF_vars(Acquiring(p) \/ Evicting(p) \/ Releasing(p))

Spec == Init /\ [][Next]_vars /\ Fairness

-----------------------------------------------------------------------------
(* Properties *)

\* The lock directory, owner files and program counters have their types.
TypeOK ==
  /\ dir \in [Paths -> Tokens \cup {Absent, Empty}]
  /\ proc \in [Procs -> ProcState]

Inside == {p \in Procs : proc[p].pc = "inside"}

\* The directory names the process inside, and no other: the lock of a live
\* process is never evicted, reclaimed or replaced, whatever evictors do with
\* what they read before it was taken, or die doing.
InsideOwnsLock == \A p \in Inside : dir[Lock] = proc[p].token

\* An evictor past its check removes exactly the dead instance it judged.
EvictsOnlyTheDead ==
  \A p \in Procs : At(p, "unlink") =>
    dir[Top(p).file] = Top(p).content /\ Gone(Top(p).content)

\* It is the lock of OwnerMutex.
Holder == IF Inside = {} THEN None ELSE CHOOSE p \in Inside : TRUE
Mutex == INSTANCE OwnerMutex WITH holder <- Holder, gone <- {p \in Procs : ~Alive(p)}
ImplementsMutex == Mutex!Spec

\* Whatever dead processes left on the lock (its instance, claims on it at any
\* depth, whole or half removed) does not keep the others out: a process that
\* waits for the lock sees it recovered unless it gives up first.  Only where a
\* death is AlwaysProved.
Orphaned == dir[Lock] \in Tokens /\ Gone(dir[Lock])
Waits(p) == proc[p].pc \notin {"idle", "inside", "unlink", "rmdir", "dead"}
OrphanRecovered == \A p \in Procs : Orphaned /\ Waits(p) ~> ~Orphaned \/ ~Waits(p)
=============================================================================
