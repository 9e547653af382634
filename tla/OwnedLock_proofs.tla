-------------------------- MODULE OwnedLock_proofs ---------------------------
(* Proofs about the owner-verified lock, for every set of processes, any     *)
(* number of deaths and any number of tokens.                                *)
EXTENDS OwnedLock, SequenceTheorems, TLAPS

-----------------------------------------------------------------------------
(* The inductive invariant *)

\* Every token a process made names it, and it has one while it wants the lock.
Mine(p, token) == token \in Tokens /\ token[1] = p
Named(p) ==
  /\ proc[p].pc \notin {"idle", "dead"} => Mine(p, proc[p].token)
  /\ proc[p].pc = "judge" => proc[p].seen \in Tokens

\* The nested calls of an evictor: each is for an instance whose process is dead.
FrameOK(p, f) == /\ Mine(p, f.token) /\ Gone(f.content)
                 /\ f.step = "judge" => f.held \in Tokens
Calls(p) ==
  /\ proc[p].pc = "evict" <=> proc[p].stack # <<>>
  /\ \A i \in DOMAIN proc[p].stack : FrameOK(p, proc[p].stack[i])

\* The process inside, or about to remove its lock, owns the lock directory.
Owns(p) == proc[p].pc \in {"inside", "unlink"} => dir[Lock] = proc[p].token

\* Between the creation and the removal of its claim, an evictor owns the claim.
Claiming == {"check", "unlink", "rmdir", "own", "unclaim"}
Claims(p) ==
  proc[p].pc = "evict" /\ Top(p).step \in Claiming => dir[Claim(Top(p).content)] = Top(p).token

\* Past its check, it is about to remove the dead instance it judged.
Judged(p) ==
  At(p, "unlink") => dir[Top(p).file] = Top(p).content /\ Gone(Top(p).content)

Sound(p) == Named(p) /\ Calls(p) /\ Owns(p) /\ Claims(p) /\ Judged(p)
LockInv == TypeOK /\ \A p \in Procs : Sound(p)

-----------------------------------------------------------------------------
(* One process moves *)

\* No name is both an instance and one of the marks.
LEMMA Marks ==
  /\ {NoToken, Absent, Empty, Lock} \cap Tokens = {}
  /\ Lock \in Paths /\ Absent # Empty
BY LockAssumption DEF NoToken, Absent, Empty, Lock, Tokens, Paths

\* Only p moves, and what a directory names stays, unless it is an instance of p
\* or the one p has judged.
Only(p) == proc' \in [Procs -> ProcState] /\ \A q \in Procs \ {p} : proc'[q] = proc[q]
DirStep(p) ==
  /\ dir' \in [Paths -> Tokens \cup {Absent, Empty}]
  /\ \A path \in Paths : dir[path] \in Tokens =>
       \/ dir'[path] = dir[path] \/ dir[path][1] = p
       \/ At(p, "unlink") /\ path = Top(p).file

\* The instances of the innermost call are instances, and its file is a path.
LEMMA TopType ==
  ASSUME LockInv, NEW p \in Procs, proc[p].pc = "evict"
  PROVE  /\ proc[p].stack \in Seq(Frame) /\ 1 \in DOMAIN proc[p].stack
         /\ Top(p) \in Frame /\ FrameOK(p, Top(p))
BY DEF LockInv, TypeOK, Sound, Calls, ProcState, Top

\* The others keep what they rely on: no live process loses a lock or a claim, and
\* only one evictor at a time is past its check.
LEMMA OthersKeep ==
  ASSUME LockInv, NEW p \in Procs, Alive(p), Only(p), DirStep(p), NEW q \in Procs \ {p}
  PROVE  Sound(q)'
<1>1. proc'[q] = proc[q] /\ Sound(q)
  BY DEF Only, LockInv
<1>2. \A token \in Tokens : Gone(token) => Gone(token)' /\ token[1] # p
  BY DEF Gone, Alive, Only, Tokens
<1>3. Named(q)'
  BY <1>1 DEF Sound, Named, Mine
<1>4. Calls(q)'
  <2>1. proc[q].stack \in Seq(Frame)
    BY DEF LockInv, TypeOK, ProcState
  <2>2. \A i \in DOMAIN proc[q].stack : proc[q].stack[i] \in Frame
    BY <2>1
  <2>3. \A i \in DOMAIN proc[q].stack : proc[q].stack[i].content \in Tokens
    BY <2>2 DEF Frame
  <2> QED BY <1>1, <1>2, <2>3 DEF Sound, Calls, FrameOK, Mine
<1>5. Owns(q)'
  <2>1. SUFFICES ASSUME proc[q].pc \in {"inside", "unlink"}
                 PROVE  dir'[Lock] = dir[Lock]
    BY <1>1 DEF Sound, Owns
  <2>2. Mine(q, dir[Lock])
    BY <1>1, <2>1 DEF Sound, Owns, Named
  <2>3. ~ (At(p, "unlink") /\ Lock = Top(p).file)
    BY <2>1, <2>2 DEF LockInv, Sound, Judged, Gone, Alive, Mine
  <2> QED BY <2>2, <2>3, Marks DEF DirStep, Mine
<1>6. Claims(q)'
  <2>1. SUFFICES ASSUME proc[q].pc = "evict", Top(q).step \in Claiming
                 PROVE  dir'[Claim(Top(q).content)] = dir[Claim(Top(q).content)]
    BY <1>1 DEF Sound, Claims, Top, Claim
  <2>2. Mine(q, dir[Claim(Top(q).content)]) /\ Claim(Top(q).content) \in Paths
    BY <1>1, <2>1, TopType DEF Sound, Claims, FrameOK, Frame, Claim, Paths
  <2>3. ~ (At(p, "unlink") /\ Claim(Top(q).content) = Top(p).file)
    BY <2>1, <2>2 DEF LockInv, Sound, Judged, Gone, Alive, Mine
  <2> QED BY <2>2, <2>3 DEF DirStep, Mine
<1>7. Judged(q)'
  <2>1. SUFFICES ASSUME At(q, "unlink")
                 PROVE  dir'[Top(q).file] = dir[Top(q).file] /\ Gone(Top(q).content)'
    BY <1>1 DEF Sound, Judged, At, Top
  <2>2. /\ dir[Top(q).file] = Top(q).content /\ Gone(Top(q).content)
        /\ Top(q).content \in Tokens /\ Top(q).file \in Paths
        /\ dir[Claim(Top(q).content)] = Top(q).token /\ Mine(q, Top(q).token)
    BY <1>1, <2>1, TopType DEF Sound, Judged, Claims, Claiming, At, FrameOK, Frame
  <2>3. ASSUME At(p, "unlink"), Top(q).file = Top(p).file
        PROVE  FALSE
    <3>1. /\ dir[Top(p).file] = Top(p).content
          /\ dir[Claim(Top(p).content)] = Top(p).token /\ Mine(p, Top(p).token)
      BY <2>3, TopType DEF LockInv, Sound, Judged, Claims, Claiming, At, FrameOK
    <3> QED BY <2>2, <2>3, <3>1 DEF Mine
  <2>4. Top(q)' = Top(q)
    BY <1>1 DEF Top
  <2> QED BY <1>2, <2>2, <2>3, <2>4 DEF DirStep, Gone
<1> QED BY <1>3, <1>4, <1>5, <1>6, <1>7 DEF Sound

LEMMA StepKeeps ==
  ASSUME LockInv, NEW p \in Procs, Alive(p), Only(p), DirStep(p), Sound(p)'
  PROVE  LockInv'
<1>1. \A q \in Procs : Sound(q)'
  BY OthersKeep
<1> QED BY <1>1 DEF LockInv, TypeOK, Only, DirStep

-----------------------------------------------------------------------------
(* What the file system calls do to the directories *)

LEMMA SameDir == ASSUME LockInv, NEW p \in Procs, UNCHANGED dir PROVE DirStep(p)
BY DEF LockInv, TypeOK, DirStep

LEMMA CreateDir ==
  ASSUME LockInv, NEW p \in Procs, NEW path \in Paths, NEW token \in Tokens,
         CanCreate(path), Create(path, token)
  PROVE  DirStep(p) /\ dir'[path] = token
BY Marks DEF LockInv, TypeOK, CanCreate, Create, DirStep

LEMMA RmdirDir ==
  ASSUME LockInv, NEW p \in Procs, NEW path \in Paths, Rmdir(path)
  PROVE  DirStep(p) /\ \A other \in Paths : dir[other] \in Tokens => dir'[other] = dir[other]
BY Marks DEF LockInv, TypeOK, Rmdir, DirStep

LEMMA UnlinkDir ==
  ASSUME LockInv, NEW p \in Procs, NEW path \in Paths, Unlink(path),
         Mine(p, dir[path]) \/ (At(p, "unlink") /\ path = Top(p).file)
  PROVE  DirStep(p) /\ \A other \in Paths \ {path} : dir'[other] = dir[other]
BY DEF LockInv, TypeOK, Unlink, DirStep, Mine

-----------------------------------------------------------------------------
(* The stack of nested calls *)

\* Replacing the innermost element of a stack.
LEMMA ReplaceTop ==
  ASSUME NEW S, NEW s \in Seq(S), s # <<>>, NEW f \in S
  PROVE  /\ [s EXCEPT ![1] = f] \in Seq(S) /\ [s EXCEPT ![1] = f] # <<>>
         /\ DOMAIN [s EXCEPT ![1] = f] = DOMAIN s /\ [s EXCEPT ![1] = f][1] = f
         /\ \A i \in DOMAIN s \ {1} : [s EXCEPT ![1] = f][i] = s[i]
<1>1. Len(s) \in Nat /\ DOMAIN s = 1 .. Len(s) /\ 1 \in DOMAIN s
  OBVIOUS
<1>2. [s EXCEPT ![1] = f] \in Seq(S) /\ DOMAIN [s EXCEPT ![1] = f] = DOMAIN s
  BY <1>1
<1> QED BY <1>1, <1>2

\* Calls are entered, left, or go on: what the new stack leaves of the invariant,
\* and all of it when the next step relies on no directory.
LEMMA StackKeeps ==
  ASSUME LockInv, NEW p \in Procs, proc[p].pc \in {"evict", "judge"},
         NEW t \in Seq(Frame), t # <<>>, \A i \in DOMAIN t : FrameOK(p, t[i]),
         NEW seen \in Tokens \cup {NoToken},
         proc' = [proc EXCEPT ![p] = [proc[p] EXCEPT !.pc = "evict", !.seen = seen, !.stack = t]]
  PROVE  /\ Only(p) /\ Alive(p) /\ Named(p)' /\ Calls(p)' /\ Owns(p)'
         /\ proc'[p].pc = "evict" /\ proc'[p].stack = t
         /\ t[1].step \notin Claiming => Sound(p)'
<1> DEFINE r == [proc[p] EXCEPT !.pc = "evict", !.seen = seen, !.stack = t]
<1>1. proc[p] \in ProcState
  BY DEF LockInv, TypeOK
<1>2. r \in ProcState /\ r.stack = t /\ r.pc = "evict" /\ r.token = proc[p].token
  BY <1>1 DEF ProcState
<1> HIDE DEF r
<1>3. Only(p) /\ proc'[p] = r
  BY <1>2 DEF Only, LockInv, TypeOK, r
<1>4. \A token \in Tokens : Gone(token) => Gone(token)'
  BY <1>2, <1>3 DEF Gone, Alive, Tokens, Only
<1>5. \A i \in DOMAIN t : t[i].content \in Tokens
  <2>1. \A i \in DOMAIN t : t[i] \in Frame
    OBVIOUS
  <2> QED BY <2>1 DEF Frame
<1>6. Calls(p)'
  BY <1>2, <1>3, <1>4, <1>5 DEF Calls, FrameOK, Mine
<1>7. Named(p)' /\ Owns(p)'
  BY <1>2, <1>3 DEF LockInv, Sound, Named, Owns, Mine
<1>8. t[1].step \notin Claiming => Sound(p)'
  BY <1>2, <1>3, <1>6, <1>7 DEF Sound, Claims, Judged, At, Claiming, Top
<1> QED BY <1>2, <1>3, <1>6, <1>7, <1>8 DEF Alive

\* The innermost call goes on.
LEMMA TopKeeps ==
  ASSUME LockInv, NEW p \in Procs, proc[p].pc = "evict", NEW f \in Frame, FrameOK(p, f),
         proc' = [proc EXCEPT ![p].stack[1] = f]
  PROVE  /\ Only(p) /\ Alive(p) /\ Named(p)' /\ Calls(p)' /\ Owns(p)'
         /\ proc'[p].pc = "evict" /\ Top(p)' = f
         /\ f.step \notin Claiming => Sound(p)'
<1> DEFINE s == proc[p].stack
           t == [s EXCEPT ![1] = f]
<1>1. s \in Seq(Frame) /\ s # <<>> /\ \A i \in DOMAIN s : FrameOK(p, s[i])
  BY TopType DEF LockInv, Sound, Calls
<1>2. proc' = [proc EXCEPT ![p] = [proc[p] EXCEPT !.pc = "evict", !.seen = proc[p].seen, !.stack = t]]
  BY DEF LockInv, TypeOK, ProcState
<1> HIDE DEF s
<1>3. /\ t \in Seq(Frame) /\ t # <<>> /\ DOMAIN t = DOMAIN s /\ t[1] = f
      /\ \A i \in DOMAIN s \ {1} : t[i] = s[i]
  BY <1>1, ReplaceTop
<1>4. proc[p].seen \in Tokens \cup {NoToken}
  BY DEF LockInv, TypeOK, ProcState
<1> HIDE DEF t
<1> QED BY <1>1, <1>2, <1>3, <1>4, StackKeeps DEF Top

LEMMA FrameToKeeps ==
  ASSUME LockInv, NEW p \in Procs, proc[p].pc = "evict",
         NEW step \in {"held", "reclaim", "again", "check", "unlink", "rmdir", "own",
                       "unclaim", "rmclaim"},
         FrameTo(p, step)
  PROVE  /\ Only(p) /\ Alive(p) /\ Named(p)' /\ Calls(p)' /\ Owns(p)'
         /\ proc'[p].pc = "evict" /\ Top(p)' = [Top(p) EXCEPT !.step = step]
         /\ Top(p)'.content = Top(p).content /\ Top(p)'.file = Top(p).file
         /\ Top(p)'.token = Top(p).token /\ Top(p)'.step = step
         /\ step \notin Claiming => Sound(p)'
<1> DEFINE f == [Top(p) EXCEPT !.step = step]
<1>1. /\ f \in Frame /\ FrameOK(p, f) /\ f.step = step /\ f.content = Top(p).content
      /\ f.file = Top(p).file /\ f.token = Top(p).token
  BY TopType DEF Frame, FrameOK
<1>2. proc' = [proc EXCEPT ![p].stack[1] = f]
  BY DEF FrameTo, Top
<1> HIDE DEF f
<1> QED BY <1>1, <1>2, TopKeeps DEF f

\* Out of the calls of tryEvict, and not inside: nothing is relied on.
LEMMA OutsideKeeps ==
  ASSUME LockInv, NEW p \in Procs, NEW r \in ProcState, r.stack = <<>>,
         r.pc \notin {"evict", "inside", "unlink"},
         r.pc \notin {"idle", "dead"} => Mine(p, r.token), r.pc = "judge" => r.seen \in Tokens,
         proc' = [proc EXCEPT ![p] = r]
  PROVE  Only(p) /\ Sound(p)'
<1>1. proc'[p] = r /\ Only(p)
  BY DEF LockInv, TypeOK, Only
<1> QED BY <1>1 DEF Sound, Named, Calls, Owns, Claims, Judged, At

LEMMA FailsKeeps ==
  ASSUME LockInv, NEW p \in Procs, proc[p].pc = "evict", Fails(p)
  PROVE  Only(p) /\ Sound(p)'
<1> DEFINE r == [proc[p] EXCEPT !.pc = "create", !.stack = <<>>]
<1>1. proc[p] \in ProcState /\ Mine(p, proc[p].token)
  BY DEF LockInv, TypeOK, Sound, Named
<1>2. r \in ProcState /\ r.stack = <<>> /\ r.pc = "create" /\ r.token = proc[p].token
  <2>1. <<>> \in Seq(Frame)
    OBVIOUS
  <2> QED BY <1>1, <2>1 DEF ProcState
<1>3. proc' = [proc EXCEPT ![p] = r]
  BY DEF Fails
<1> HIDE DEF r
<1> QED BY <1>1, <1>2, <1>3, OutsideKeeps

LEMMA SucceedsKeeps ==
  ASSUME LockInv, NEW p \in Procs, proc[p].pc = "evict", Succeeds(p)
  PROVE  Only(p) /\ Sound(p)'
<1>1. CASE Len(proc[p].stack) = 1
  BY <1>1, FailsKeeps DEF Succeeds
<1>2. CASE Len(proc[p].stack) # 1
  <2> DEFINE s == proc[p].stack
             f == [s[2] EXCEPT !.step = "again"]
             u == Tail(s)
             t == [u EXCEPT ![1] = f]
  <2>1. s \in Seq(Frame) /\ 1 \in DOMAIN s /\ Len(s) # 1
    BY <1>2, TopType
  <2> HIDE DEF s
  <2>2. Len(s) \in Nat /\ Len(s) > 1
    <3>1. Len(s) \in Nat /\ DOMAIN s = 1 .. Len(s)
      BY <2>1
    <3> QED BY <2>1, <3>1
  <2>3. /\ u \in Seq(Frame) /\ Len(u) = Len(s) - 1 /\ u # <<>>
        /\ \A i \in 1 .. Len(s) - 1 : u[i] = s[i + 1]
    <3>1. Tail(s) \in Seq(Frame) /\ Len(Tail(s)) = Len(s) - 1
      BY <2>1, <2>2
    <3>2. \A i \in 1 .. Len(s) - 1 : Tail(s)[i] = s[i + 1]
      BY <2>1, <2>2
    <3>3. Tail(s) # <<>>
      <4>1. Len(<<>>) = 0
        BY EmptySeq, Zenon
      <4>2. Len(s) - 1 > 0
        BY <2>2
      <4> QED BY <3>1, <4>1, <4>2
    <3> QED BY <3>1, <3>2, <3>3
  <2>4. s[2] \in Frame /\ \A i \in 1 .. Len(s) : s[i] \in Frame /\ FrameOK(p, s[i])
    BY <2>1, <2>2 DEF LockInv, Sound, Calls, s
  <2>5. f \in Frame /\ FrameOK(p, f) /\ f.step = "again"
    BY <2>2, <2>4 DEF Frame, FrameOK
  <2>6. proc' = [proc EXCEPT ![p] = [proc[p] EXCEPT !.pc = "evict", !.seen = proc[p].seen, !.stack = t]]
    <3>1. proc' = [proc EXCEPT ![p] = [proc[p] EXCEPT !.stack = t]]
      BY <1>2, <2>2, <2>3 DEF Succeeds, s
    <3> QED BY <3>1 DEF LockInv, TypeOK, ProcState
  <2> HIDE DEF f, u
  <2>7. /\ t \in Seq(Frame) /\ DOMAIN t = DOMAIN u /\ t[1] = f /\ t # <<>>
        /\ \A i \in DOMAIN u \ {1} : t[i] = u[i]
    BY <2>3, <2>5, ReplaceTop
  <2>8. ASSUME NEW i \in DOMAIN t PROVE FrameOK(p, t[i])
    <3>1. CASE i = 1
      BY <2>5, <2>7, <3>1
    <3>2. CASE i # 1
      <4>1. i + 1 \in 1 .. Len(s) /\ t[i] = s[i + 1]
        BY <2>2, <2>3, <2>7, <3>2
      <4> QED BY <2>4, <4>1
    <3> QED BY <3>1, <3>2
  <2> HIDE DEF t, s
  <2> QED BY <2>5, <2>6, <2>7, <2>8, StackKeeps DEF Claiming, LockInv, TypeOK, ProcState
<1> QED BY <1>1, <1>2

LEMMA ReturnsKeeps ==
  ASSUME LockInv, NEW p \in Procs, proc[p].pc = "evict", Returns(p)
  PROVE  Only(p) /\ Sound(p)'
BY FailsKeeps, SucceedsKeeps DEF Returns

-----------------------------------------------------------------------------
(* Every step keeps the invariant *)

LEMMA NewTokenMine ==
  ASSUME NEW p \in Procs, NEW token, NewToken(p, token)
  PROVE  Mine(p, token)
BY DEF NewToken, Mine, Tokens

\* What one knows of a process outside tryEvict.
LEMMA Plain ==
  ASSUME LockInv, NEW p \in Procs, proc[p].pc # "evict"
  PROVE  /\ proc[p] \in ProcState /\ proc[p].stack = <<>> /\ Fresh \in ProcState
         /\ proc[p].pc \notin {"idle", "dead"} => Mine(p, proc[p].token)
<1>1. <<>> \in Seq(Frame)
  OBVIOUS
<1> QED BY <1>1 DEF LockInv, TypeOK, Sound, Calls, Named, Fresh, ProcState

LEMMA StartKeeps == ASSUME LockInv, NEW p \in Procs, Start(p) PROVE LockInv'
<1>1. PICK token \in Tokens : Mine(p, token) /\ proc' = [proc EXCEPT ![p].pc = "create", ![p].token = token]
  BY NewTokenMine DEF Start
<1> DEFINE r == [proc[p] EXCEPT !.pc = "create", !.token = token]
<1>2. r \in ProcState /\ r.stack = <<>> /\ r.pc = "create" /\ r.token = token
  BY Plain DEF Start, ProcState
<1>3. proc' = [proc EXCEPT ![p] = r]
  BY <1>1
<1> HIDE DEF r
<1>4. Only(p) /\ Sound(p)' /\ Alive(p)
  BY <1>1, <1>2, <1>3, OutsideKeeps DEF Start, Alive
<1> QED BY <1>4, SameDir, StepKeeps DEF Start

\* A step outside tryEvict that only goes on.
LEMMA GotoKeeps ==
  ASSUME LockInv, NEW p \in Procs, proc[p].pc \notin {"evict", "idle", "dead"},
         NEW step \in {"create", "read", "reclaim", "rmdir"}, Goto(p, step)
  PROVE  Only(p) /\ Sound(p)' /\ Alive(p)
<1> DEFINE r == [proc[p] EXCEPT !.pc = step]
<1>1. r \in ProcState /\ r.stack = <<>> /\ r.pc = step /\ r.token = proc[p].token
  BY Plain DEF ProcState
<1>2. proc' = [proc EXCEPT ![p] = r]
  BY DEF Goto
<1> HIDE DEF r
<1> QED BY <1>1, <1>2, Plain, OutsideKeeps DEF Alive

\* Out of everything.
LEMMA FreshKeeps ==
  ASSUME LockInv, NEW p \in Procs, proc[p].pc \notin {"evict", "dead"},
         proc' = [proc EXCEPT ![p] = Fresh]
  PROVE  Only(p) /\ Sound(p)' /\ Alive(p)
<1>1. Fresh \in ProcState /\ Fresh.stack = <<>> /\ Fresh.pc = "idle"
  BY Plain DEF Fresh
<1> HIDE DEF Fresh
<1> QED BY <1>1, OutsideKeeps DEF Alive

\* The process enters, or goes to remove its lock.
LEMMA OwnKeeps ==
  ASSUME LockInv, NEW p \in Procs, proc[p].pc \notin {"evict", "idle", "dead"},
         NEW step \in {"inside", "unlink"}, Goto(p, step), dir'[Lock] = proc[p].token
  PROVE  Only(p) /\ Sound(p)' /\ Alive(p)
<1> DEFINE r == [proc[p] EXCEPT !.pc = step]
<1>1. r \in ProcState /\ r.stack = <<>> /\ r.pc = step /\ r.token = proc[p].token
  BY Plain DEF ProcState
<1>2. proc' = [proc EXCEPT ![p] = r]
  BY DEF Goto
<1> HIDE DEF r
<1>3. proc'[p] = r /\ Only(p)
  BY <1>1, <1>2 DEF LockInv, TypeOK, Only
<1> QED BY <1>1, <1>3, Plain DEF Sound, Named, Calls, Owns, Claims, Judged, At, Alive, Mine

LEMMA TryCreateKeeps == ASSUME LockInv, NEW p \in Procs, TryCreate(p) PROVE LockInv'
<1>1. proc[p].pc = "create" /\ Mine(p, proc[p].token)
  BY Plain DEF TryCreate
<1>2. CASE CanCreate(Lock) /\ Create(Lock, proc[p].token) /\ Goto(p, "inside")
  <2>1. DirStep(p) /\ dir'[Lock] = proc[p].token
    BY <1>1, <1>2, CreateDir, Marks DEF Mine
  <2> QED BY <1>1, <1>2, <2>1, OwnKeeps, StepKeeps
<1>3. CASE Goto(p, "read") /\ UNCHANGED dir
  BY <1>1, <1>3, GotoKeeps, SameDir, StepKeeps
<1> QED BY <1>2, <1>3 DEF TryCreate

LEMMA ReadOwnerKeeps == ASSUME LockInv, NEW p \in Procs, ReadOwner(p) PROVE LockInv'
<1> DEFINE r == [proc[p] EXCEPT !.seen = Owner(Lock),
                                !.pc = IF Owner(Lock) = NoToken THEN "reclaim" ELSE "judge"]
<1>1. Owner(Lock) \in Tokens \cup {NoToken}
  BY DEF Owner
<1>2. /\ r \in ProcState /\ r.stack = <<>> /\ r.pc \in {"reclaim", "judge"}
      /\ r.token = proc[p].token /\ (r.pc = "judge" => r.seen \in Tokens)
  BY <1>1, Plain DEF ReadOwner, ProcState
<1>3. proc' = [proc EXCEPT ![p] = r]
  BY DEF ReadOwner
<1> HIDE DEF r
<1>4. Only(p) /\ Sound(p)' /\ Alive(p)
  BY <1>2, <1>3, Plain, OutsideKeeps DEF Alive, ReadOwner
<1> QED BY <1>4, SameDir, StepKeeps DEF ReadOwner

LEMMA ReclaimEmptyKeeps == ASSUME LockInv, NEW p \in Procs, ReclaimEmpty(p) PROVE LockInv'
BY GotoKeeps, RmdirDir, StepKeeps, Marks DEF ReclaimEmpty

LEMMA LeaveHeldKeeps == ASSUME LockInv, NEW p \in Procs, LeaveHeld(p) PROVE LockInv'
<1> DEFINE r == [proc[p] EXCEPT !.pc = "create", !.seen = NoToken]
<1>1. r \in ProcState /\ r.stack = <<>> /\ r.pc = "create" /\ r.token = proc[p].token
  BY Plain DEF LeaveHeld, ProcState
<1>2. proc' = [proc EXCEPT ![p] = r]
  BY DEF LeaveHeld
<1> HIDE DEF r
<1>3. Only(p) /\ Sound(p)' /\ Alive(p)
  BY <1>1, <1>2, Plain, OutsideKeeps DEF Alive, LeaveHeld
<1> QED BY <1>3, SameDir, StepKeeps DEF LeaveHeld

LEMMA NewFrameType ==
  ASSUME NEW p \in Procs, NEW file \in Paths, NEW content \in Tokens, Gone(content),
         NEW token, NewToken(p, token)
  PROVE  /\ NewFrame(file, content, token) \in Frame
         /\ FrameOK(p, NewFrame(file, content, token))
         /\ NewFrame(file, content, token).step = "claim"
BY NewTokenMine DEF NewFrame, Frame, FrameOK, Mine

LEMMA JudgeGoneKeeps == ASSUME LockInv, NEW p \in Procs, JudgeGone(p) PROVE LockInv'
<1>1. proc[p].seen \in Tokens /\ Lock \in Paths
  BY Marks DEF JudgeGone, LockInv, Sound, Named
<1>2. PICK token \in Tokens :
        /\ NewToken(p, token)
        /\ proc' = [proc EXCEPT ![p].pc = "evict", ![p].seen = NoToken,
                      ![p].stack = <<NewFrame(Lock, proc[p].seen, token)>>]
  BY DEF JudgeGone
<1> DEFINE f == NewFrame(Lock, proc[p].seen, token)
           t == <<f>>
<1>3. f \in Frame /\ FrameOK(p, f) /\ f.step = "claim"
  BY <1>1, <1>2, NewFrameType DEF JudgeGone
<1>4. proc' = [proc EXCEPT ![p] = [proc[p] EXCEPT !.pc = "evict", !.seen = NoToken, !.stack = t]]
  BY <1>2
<1> HIDE DEF f
<1>5. t \in Seq(Frame) /\ t # <<>> /\ t[1] = f /\ DOMAIN t = {1}
  BY <1>3
<1> HIDE DEF t
<1>6. Only(p) /\ Sound(p)' /\ Alive(p)
  BY <1>3, <1>4, <1>5, StackKeeps DEF Claiming, JudgeGone, Alive
<1> QED BY <1>6, SameDir, StepKeeps DEF JudgeGone

LEMMA GiveUpKeeps == ASSUME LockInv, NEW p \in Procs, GiveUp(p) PROVE LockInv'
BY FreshKeeps, SameDir, StepKeeps DEF GiveUp

LEMMA LeaveKeeps == ASSUME LockInv, NEW p \in Procs, Leave(p) PROVE LockInv'
<1>1. proc[p].pc = "inside" /\ UNCHANGED dir /\ dir[Lock] = proc[p].token
  BY DEF Leave, LockInv, Sound, Owns
<1>2. CASE Goto(p, "unlink")
  BY <1>1, <1>2, OwnKeeps, SameDir, StepKeeps
<1>3. CASE proc' = [proc EXCEPT ![p] = Fresh]
  BY <1>1, <1>3, FreshKeeps, SameDir, StepKeeps
<1> QED BY <1>2, <1>3 DEF Leave

LEMMA UnlinkOwnKeeps == ASSUME LockInv, NEW p \in Procs, UnlinkOwn(p) PROVE LockInv'
<1>1. Mine(p, dir[Lock])
  BY DEF UnlinkOwn, LockInv, Sound, Owns, Named
<1> QED BY <1>1, UnlinkDir, GotoKeeps, StepKeeps, Marks DEF UnlinkOwn

LEMMA RmdirOwnKeeps == ASSUME LockInv, NEW p \in Procs, RmdirOwn(p) PROVE LockInv'
BY FreshKeeps, RmdirDir, StepKeeps, Marks DEF RmdirOwn

-----------------------------------------------------------------------------
(* Every step of an eviction keeps it *)

\* The evictor owns its claim, and the file it removes is not that claim.
LEMMA Claimant ==
  ASSUME LockInv, NEW p \in Procs, proc[p].pc = "evict", Top(p).step \in Claiming
  PROVE  /\ Claim(Top(p).content) \in Paths /\ Top(p).file \in Paths
         /\ Mine(p, dir[Claim(Top(p).content)])
         /\ dir[Claim(Top(p).content)] = Top(p).token
         /\ At(p, "unlink") => Top(p).file # Claim(Top(p).content)
<1>1. /\ Claim(Top(p).content) \in Paths /\ Top(p).file \in Paths
      /\ dir[Claim(Top(p).content)] = Top(p).token /\ Mine(p, Top(p).token)
  BY TopType DEF LockInv, Sound, Claims, FrameOK, Frame, Claim, Paths
<1>2. At(p, "unlink") => Gone(dir[Top(p).file])
  BY DEF LockInv, Sound, Judged
<1> QED BY <1>1, <1>2 DEF Gone, Alive, Mine

\* A claim taken is the evictor's.
LEMMA ClaimTakenKeeps ==
  ASSUME LockInv, NEW p \in Procs, proc[p].pc = "evict", ClaimTaken(p)
  PROVE  LockInv'
<1>1. Claim(Top(p).content) \in Paths /\ Top(p).token \in Tokens
  BY TopType DEF FrameOK, Mine, Frame, Claim, Paths
<1>2. DirStep(p) /\ dir'[Claim(Top(p).content)] = Top(p).token
  BY <1>1, CreateDir DEF ClaimTaken
<1>3. /\ Only(p) /\ Alive(p) /\ Named(p)' /\ Calls(p)' /\ Owns(p)'
      /\ Top(p)'.content = Top(p).content /\ Top(p)'.token = Top(p).token
      /\ Top(p)'.step = "check"
  BY FrameToKeeps DEF ClaimTaken
<1>4. Sound(p)'
  BY <1>2, <1>3 DEF Sound, Claims, Judged, At, Claim
<1> QED BY <1>2, <1>3, <1>4, StepKeeps

LEMMA TakeClaimKeeps == ASSUME LockInv, NEW p \in Procs, TakeClaim(p) PROVE LockInv'
<1>1. CASE FrameTo(p, "held") /\ UNCHANGED dir
  BY <1>1, FrameToKeeps, SameDir, StepKeeps DEF TakeClaim, At, Claiming
<1> QED BY <1>1, ClaimTakenKeeps DEF TakeClaim, At

LEMMA TakeClaimAgainKeeps == ASSUME LockInv, NEW p \in Procs, TakeClaimAgain(p) PROVE LockInv'
<1>1. CASE Fails(p) /\ UNCHANGED dir
  BY <1>1, FailsKeeps, SameDir, StepKeeps DEF TakeClaimAgain, At, Alive
<1> QED BY <1>1, ClaimTakenKeeps DEF TakeClaimAgain, At

LEMMA ReadClaimKeeps == ASSUME LockInv, NEW p \in Procs, ReadClaim(p) PROVE LockInv'
<1> DEFINE held == Owner(Claim(Top(p).content))
           f == [Top(p) EXCEPT !.held = held,
                               !.step = IF held = NoToken THEN "reclaim" ELSE "judge"]
<1>1. held \in Tokens \cup {NoToken}
  BY DEF Owner
<1>2. proc' = [proc EXCEPT ![p].stack[1] = f]
  BY TopType DEF ReadClaim, At, Top
<1> HIDE DEF held
<1>3. f \in Frame /\ FrameOK(p, f) /\ f.step \in {"reclaim", "judge"}
  BY <1>1, TopType DEF ReadClaim, At, Frame, FrameOK
<1> HIDE DEF f
<1>4. Only(p) /\ Alive(p) /\ Sound(p)'
  BY <1>2, <1>3, TopKeeps DEF ReadClaim, At, Claiming
<1> QED BY <1>4, SameDir, StepKeeps DEF ReadClaim

LEMMA ReclaimClaimKeeps == ASSUME LockInv, NEW p \in Procs, ReclaimClaim(p) PROVE LockInv'
<1>1. proc[p].pc = "evict" /\ Claim(Top(p).content) \in Paths
  BY TopType DEF ReclaimClaim, At, Frame, Claim, Paths
<1>2. DirStep(p)
  BY <1>1, RmdirDir DEF ReclaimClaim
<1>3. Only(p) /\ Sound(p)' /\ Alive(p)
  BY <1>1, FrameToKeeps, FailsKeeps DEF ReclaimClaim, Claiming, Alive
<1> QED BY <1>2, <1>3, StepKeeps

LEMMA LeaveClaimKeeps == ASSUME LockInv, NEW p \in Procs, LeaveClaim(p) PROVE LockInv'
BY FailsKeeps, SameDir, StepKeeps DEF LeaveClaim, At, Alive

LEMMA JudgeClaimGoneKeeps == ASSUME LockInv, NEW p \in Procs, JudgeClaimGone(p) PROVE LockInv'
<1> DEFINE s == proc[p].stack
           g == [Top(p) EXCEPT !.step = "child", !.held = NoToken]
<1>1. /\ proc[p].pc = "evict" /\ s \in Seq(Frame) /\ Len(s) \in Nat \ {0} /\ Top(p) = s[1]
      /\ Top(p).held \in Tokens /\ Gone(Top(p).held) /\ Claim(Top(p).content) \in Paths
      /\ \A i \in DOMAIN s : FrameOK(p, s[i])
  <2>1. proc[p].pc = "evict" /\ Top(p).step = "judge" /\ Gone(Top(p).held)
    BY DEF JudgeClaimGone, ClaimAbandoned, At
  <2>2. Top(p).held \in Tokens /\ Claim(Top(p).content) \in Paths
    BY <2>1, TopType DEF FrameOK, Frame, Claim, Paths
  <2>3. s \in Seq(Frame) /\ s # <<>> /\ Top(p) = s[1] /\ \A i \in DOMAIN s : FrameOK(p, s[i])
    BY <2>1, TopType DEF LockInv, Sound, Calls, Top
  <2>4. Len(s) \in Nat \ {0}
    BY <2>3
  <2> QED BY <2>1, <2>2, <2>3, <2>4
<1>2. PICK token \in Tokens :
        /\ NewToken(p, token)
        /\ proc' = [proc EXCEPT ![p].stack =
             <<NewFrame(Claim(Top(p).content), Top(p).held, token), g>> \o Tail(@)]
  BY DEF JudgeClaimGone
<1> DEFINE f == NewFrame(Claim(Top(p).content), Top(p).held, token)
           t == <<f, g>> \o Tail(s)
<1>3. f \in Frame /\ FrameOK(p, f) /\ f.step = "claim"
  BY <1>1, <1>2, NewFrameType
<1>4. g \in Frame /\ FrameOK(p, g)
  BY TopType, <1>1 DEF Frame, FrameOK
<1>5. proc' = [proc EXCEPT ![p] = [proc[p] EXCEPT !.pc = "evict", !.seen = proc[p].seen, !.stack = t]]
  BY <1>1, <1>2 DEF LockInv, TypeOK, ProcState
<1> HIDE DEF f, g, s
<1>6. /\ Tail(s) \in Seq(Frame) /\ Len(Tail(s)) = Len(s) - 1
      /\ \A i \in 1 .. Len(s) - 1 : Tail(s)[i] = s[i + 1]
  BY <1>1
<1>7. /\ t \in Seq(Frame) /\ Len(t) = Len(s) + 1 /\ t[1] = f /\ t[2] = g
      /\ \A i \in 3 .. Len(t) : t[i] = s[i - 1]
  BY <1>1, <1>3, <1>4, <1>6
<1> HIDE DEF t
<1>8. \A i \in DOMAIN t : FrameOK(p, t[i])
  BY <1>1, <1>3, <1>4, <1>7
<1>9. t # <<>> /\ proc[p].seen \in Tokens \cup {NoToken}
  BY <1>1, <1>7 DEF LockInv, TypeOK, ProcState
<1>10. Only(p) /\ Sound(p)' /\ Alive(p)
  BY <1>1, <1>3, <1>5, <1>7, <1>8, <1>9, StackKeeps DEF Claiming
<1> QED BY <1>10, SameDir, StepKeeps DEF JudgeClaimGone

LEMMA CheckKeeps == ASSUME LockInv, NEW p \in Procs, Check(p) PROVE LockInv'
<1>1. proc[p].pc = "evict" /\ Top(p).step = "check" /\ UNCHANGED dir
  BY DEF Check, At
<1>2. /\ Only(p) /\ Alive(p) /\ Named(p)' /\ Calls(p)' /\ Owns(p)'
      /\ Top(p)'.content = Top(p).content /\ Top(p)'.file = Top(p).file
      /\ Top(p)'.token = Top(p).token
      /\ Top(p)'.step = IF StillAbandoned(p) THEN "unlink" ELSE "own"
  BY <1>1, FrameToKeeps DEF Check
<1>3. Claims(p)'
  BY <1>1, <1>2, Claimant DEF Claims, Claiming, Claim
<1>4. Judged(p)'
  <2>1. SUFFICES ASSUME StillAbandoned(p)
                 PROVE  dir[Top(p).file] = Top(p).content /\ Gone(Top(p).content)'
    BY <1>1, <1>2 DEF Judged, At, Gone
  <2>2. Top(p).content \in Tokens /\ Gone(Top(p).content)
    BY <1>1, TopType DEF FrameOK, Frame
  <2>3. dir[Top(p).file] = Top(p).content
    BY <2>1, <2>2, Marks DEF StillAbandoned, Owner
  <2> QED BY <1>2, <2>2, <2>3 DEF Gone, Alive, Only, Tokens
<1> QED BY <1>1, <1>2, <1>3, <1>4, SameDir, StepKeeps DEF Sound

LEMMA EvictUnlinkKeeps == ASSUME LockInv, NEW p \in Procs, EvictUnlink(p) PROVE LockInv'
<1>1. proc[p].pc = "evict" /\ Top(p).step = "unlink" /\ At(p, "unlink")
  BY DEF EvictUnlink, At
<1>2. /\ Claim(Top(p).content) \in Paths /\ Top(p).file \in Paths
      /\ dir[Claim(Top(p).content)] = Top(p).token
      /\ Top(p).file # Claim(Top(p).content)
  BY <1>1, Claimant DEF Claiming
<1>3. DirStep(p) /\ dir'[Claim(Top(p).content)] = Top(p).token
  BY <1>1, <1>2, UnlinkDir DEF EvictUnlink
<1>4. /\ Only(p) /\ Alive(p) /\ Named(p)' /\ Calls(p)' /\ Owns(p)'
      /\ Top(p)'.content = Top(p).content /\ Top(p)'.token = Top(p).token
      /\ Top(p)'.step = "rmdir"
  BY <1>1, FrameToKeeps DEF EvictUnlink
<1>5. Sound(p)'
  BY <1>3, <1>4 DEF Sound, Claims, Judged, At, Claim
<1> QED BY <1>3, <1>4, <1>5, StepKeeps

LEMMA EvictRmdirKeeps == ASSUME LockInv, NEW p \in Procs, EvictRmdir(p) PROVE LockInv'
<1>1. proc[p].pc = "evict" /\ Top(p).step = "rmdir"
  BY DEF EvictRmdir, At
<1>2. /\ Claim(Top(p).content) \in Paths /\ Top(p).file \in Paths
      /\ dir[Claim(Top(p).content)] = Top(p).token /\ Top(p).token \in Tokens
  BY <1>1, Claimant DEF Claiming, Mine
<1>3. DirStep(p) /\ dir'[Claim(Top(p).content)] = Top(p).token
  BY <1>2, RmdirDir DEF EvictRmdir
<1> DEFINE f == [Top(p) EXCEPT !.step = "own", !.ok = TRUE]
<1>4. /\ f \in Frame /\ FrameOK(p, f) /\ f.step = "own" /\ f.content = Top(p).content
      /\ f.token = Top(p).token
  BY <1>1, TopType DEF Frame, FrameOK
<1>5. proc' = [proc EXCEPT ![p].stack[1] = f]
  BY <1>1, TopType DEF EvictRmdir, Top
<1> HIDE DEF f
<1>6. /\ Only(p) /\ Alive(p) /\ Named(p)' /\ Calls(p)' /\ Owns(p)' /\ Top(p)' = f
  BY <1>1, <1>4, <1>5, TopKeeps
<1>7. Sound(p)'
  BY <1>3, <1>4, <1>6 DEF Sound, Claims, Judged, At, Claim
<1> QED BY <1>3, <1>6, <1>7, StepKeeps

LEMMA VerifyClaimKeeps == ASSUME LockInv, NEW p \in Procs, VerifyClaim(p) PROVE LockInv'
<1>1. proc[p].pc = "evict" /\ Top(p).step = "own" /\ UNCHANGED dir
  BY DEF VerifyClaim, At
<1>2. CASE FrameTo(p, "unclaim")
  <2>1. /\ Only(p) /\ Alive(p) /\ Named(p)' /\ Calls(p)' /\ Owns(p)'
        /\ Top(p)'.content = Top(p).content /\ Top(p)'.token = Top(p).token
        /\ Top(p)'.step = "unclaim"
    BY <1>1, <1>2, FrameToKeeps
  <2>2. dir'[Claim(Top(p).content)] = Top(p).token
    BY <1>1, Claimant DEF Claiming
  <2>3. Sound(p)'
    BY <2>1, <2>2 DEF Sound, Claims, Judged, At, Claim
  <2> QED BY <1>1, <2>1, <2>3, SameDir, StepKeeps
<1>3. CASE Returns(p)
  BY <1>1, <1>3, ReturnsKeeps, SameDir, StepKeeps DEF Alive
<1> QED BY <1>2, <1>3 DEF VerifyClaim

LEMMA UnlinkClaimKeeps == ASSUME LockInv, NEW p \in Procs, UnlinkClaim(p) PROVE LockInv'
<1>1. proc[p].pc = "evict" /\ Top(p).step = "unclaim"
  BY DEF UnlinkClaim, At
<1>2. Claim(Top(p).content) \in Paths /\ Mine(p, dir[Claim(Top(p).content)])
  BY <1>1, Claimant DEF Claiming
<1>3. DirStep(p)
  BY <1>2, UnlinkDir DEF UnlinkClaim
<1>4. Only(p) /\ Alive(p) /\ Sound(p)'
  BY <1>1, FrameToKeeps DEF UnlinkClaim, Claiming
<1> QED BY <1>3, <1>4, StepKeeps

LEMMA RmdirClaimKeeps == ASSUME LockInv, NEW p \in Procs, RmdirClaim(p) PROVE LockInv'
<1>1. proc[p].pc = "evict" /\ Claim(Top(p).content) \in Paths
  BY TopType DEF RmdirClaim, At, Frame, Claim, Paths
<1>2. DirStep(p)
  BY <1>1, RmdirDir DEF RmdirClaim
<1>3. Only(p) /\ Alive(p) /\ Sound(p)'
  BY <1>1, ReturnsKeeps DEF RmdirClaim, Alive
<1> QED BY <1>2, <1>3, StepKeeps

LEMMA DieKeeps == ASSUME LockInv, NEW p \in Procs, Die(p) PROVE LockInv'
<1> DEFINE r == [Fresh EXCEPT !.pc = "dead"]
<1>1. <<>> \in Seq(Frame)
  OBVIOUS
<1>2. r \in ProcState /\ r.stack = <<>> /\ r.pc = "dead"
  BY <1>1 DEF Fresh, ProcState
<1>3. proc' = [proc EXCEPT ![p] = r]
  BY DEF Die
<1> HIDE DEF r
<1>4. Only(p) /\ Sound(p)'
  BY <1>2, <1>3, OutsideKeeps
<1> QED BY <1>4, SameDir, StepKeeps DEF Die

-----------------------------------------------------------------------------
(* The theorems *)

LEMMA InitInv == Init => LockInv
<1> SUFFICES ASSUME Init PROVE LockInv
  OBVIOUS
<1>1. <<>> \in Seq(Frame)
  OBVIOUS
<1>2. Fresh \in ProcState /\ Fresh.pc = "idle" /\ Fresh.stack = <<>>
  BY <1>1 DEF Fresh, ProcState
<1>3. TypeOK
  BY <1>2 DEF Init, TypeOK
<1>4. \A p \in Procs : proc[p].pc = "idle" /\ proc[p].stack = <<>>
  BY <1>2 DEF Init
<1> QED BY <1>3, <1>4 DEF LockInv, Sound, Named, Calls, Owns, Claims, Judged, At

LEMMA NextInv == LockInv /\ [Next]_vars => LockInv'
<1> SUFFICES ASSUME LockInv, [Next]_vars PROVE LockInv'
  OBVIOUS
<1>1. ASSUME NEW p \in Procs, Start(p) \/ Acquiring(p) PROVE LockInv'
  BY <1>1, StartKeeps, TryCreateKeeps, ReadOwnerKeeps, ReclaimEmptyKeeps, LeaveHeldKeeps,
     JudgeGoneKeeps, GiveUpKeeps DEF Acquiring
<1>2. ASSUME NEW p \in Procs, Releasing(p) PROVE LockInv'
  BY <1>2, LeaveKeeps, UnlinkOwnKeeps, RmdirOwnKeeps DEF Releasing
<1>3. ASSUME NEW p \in Procs, Evicting(p) PROVE LockInv'
  BY <1>3, TakeClaimKeeps, TakeClaimAgainKeeps, ReadClaimKeeps, ReclaimClaimKeeps,
     LeaveClaimKeeps, JudgeClaimGoneKeeps, CheckKeeps, EvictUnlinkKeeps, EvictRmdirKeeps,
     VerifyClaimKeeps, UnlinkClaimKeeps, RmdirClaimKeeps DEF Evicting
<1>4. ASSUME NEW p \in Procs, Die(p) PROVE LockInv'
  BY <1>4, DieKeeps
<1>5. CASE UNCHANGED vars
  BY <1>5 DEF vars, LockInv, TypeOK, Sound, Named, Calls, FrameOK, Mine, Gone, Alive, Owns,
     Claims, Judged, At, Top, Claim
<1> QED BY <1>1, <1>2, <1>3, <1>4, <1>5 DEF Next, Step

LEMMA LockInvariant == Spec => []LockInv
BY InitInv, NextInv, PTL DEF Spec

\* Lock directories, owner files and program counters keep their types
\* (portal-memory-lock.mjs).
THEOREM TypeCorrect == Spec => []TypeOK
<1>1. LockInv => TypeOK
  BY DEF LockInv
<1> QED BY <1>1, LockInvariant, PTL

\* While a process is inside, the lock directory names it (acquireOwnedLock,
\* tryEvict).
THEOREM OwnersKeepTheLock == Spec => []InsideOwnsLock
<1>1. LockInv => InsideOwnsLock
  BY DEF LockInv, Sound, Owns, InsideOwnsLock, Inside
<1> QED BY <1>1, LockInvariant, PTL

\* An evictor past its check removes the dead instance it judged (tryEvict).
THEOREM OnlyTheDeadAreEvicted == Spec => []EvictsOnlyTheDead
<1>1. LockInv => EvictsOnlyTheDead
  BY DEF LockInv, Sound, Judged, EvictsOnlyTheDead
<1> QED BY <1>1, LockInvariant, PTL

-----------------------------------------------------------------------------
(* The lock implements OwnerMutex *)

\* Only one process is inside, and it is the holder.
LEMMA OneInside ==
  ASSUME LockInv
  PROVE  /\ \A p \in Procs : proc[p].pc = "inside" => Holder = p
         /\ Inside = {} => Holder = None
         /\ None \notin Procs
<1>1. \A p, q \in Inside : p = q
  BY DEF LockInv, Sound, Owns, Named, Mine, Inside
<1>2. \A p \in Inside : Holder = p
  BY <1>1 DEF Holder
<1> QED BY <1>2, LockAssumption DEF Holder, Inside

\* A step of one process is a step of the mutex or none of it: entering takes it
\* from nobody, and only the holder, or its death, gives it back.
LEMMA StepIsMutex ==
  ASSUME LockInv, LockInv', NEW p \in Procs, Only(p), Alive(p),
         proc'[p].pc # "dead",
         proc'[p].pc = "inside" => Inside = {} \/ proc[p].pc = "inside"
  PROVE  [Mutex!Next]_(Mutex!vars)
<1>1. {q \in Procs : ~Alive(q)}' = {q \in Procs : ~Alive(q)}
  BY DEF Alive, Only
<1>2. Inside' \ {p} = Inside \ {p}
  BY DEF Inside, Only
<1>3. CASE proc[p].pc = "inside" /\ proc'[p].pc # "inside"
  <2>1. Holder = p
    BY <1>3, OneInside
  <2>2. Inside \ {p} = {}
    BY <2>1, OneInside DEF Inside
  <2>3. Inside' = {}
    BY <1>2, <1>3, <2>2 DEF Inside
  <2>4. Holder' = None
    BY <2>3 DEF Holder
  <2> QED BY <1>1, <2>1, <2>4 DEF Mutex!Next, Mutex!Release
<1>4. CASE proc[p].pc # "inside" /\ proc'[p].pc = "inside"
  <2>1. Holder = None
    BY <1>4, OneInside
  <2>2. Holder' = p
    BY <1>4, OneInside DEF Holder, Inside, LockInv, Sound, Owns, Named, Mine
  <2> QED BY <1>1, <2>1, <2>2 DEF Mutex!Next, Mutex!Acquire
<1>5. CASE proc[p].pc = "inside" <=> proc'[p].pc = "inside"
  <2>1. Inside' = Inside
    BY <1>2, <1>5 DEF Inside
  <2> QED BY <1>1, <2>1 DEF Mutex!vars, Holder
<1> QED BY <1>3, <1>4, <1>5

\* Who a step moves, and how it enters: only into a lock that names nobody.
Moves(p) ==
  /\ \A q \in Procs \ {p} : proc'[q] = proc[q]
  /\ Alive(p) /\ proc'[p].pc # "dead"
  /\ proc'[p].pc = "inside" => Inside = {}

LEMMA StepMoves == ASSUME LockInv, NEW p \in Procs, Step(p) PROVE Moves(p)
<1>1. proc \in [Procs -> ProcState] /\ proc[p] \in ProcState
  BY DEF LockInv, TypeOK
<1>2. CASE Start(p)
  BY <1>1, <1>2 DEF Start, Moves, Alive, ProcState
<1>3. CASE TryCreate(p)
  <2>1. CASE CanCreate(Lock) /\ Goto(p, "inside")
    <3>1. Inside = {}
      BY <2>1, Marks DEF LockInv, Sound, Owns, Named, Mine, Inside, CanCreate
    <3> QED BY <1>1, <1>3, <2>1, <3>1 DEF TryCreate, Goto, Moves, Alive, ProcState
  <2>2. CASE Goto(p, "read")
    BY <1>1, <1>3, <2>2 DEF TryCreate, Goto, Moves, Alive, ProcState
  <2> QED BY <1>3, <2>1, <2>2 DEF TryCreate
<1>4. CASE ReadOwner(p) \/ ReclaimEmpty(p) \/ LeaveHeld(p) \/ JudgeGone(p) \/ GiveUp(p)
  BY <1>1, <1>4 DEF ReadOwner, ReclaimEmpty, LeaveHeld, JudgeGone, GiveUp, Goto, Fresh,
                    Moves, Alive, ProcState
<1>5. CASE Releasing(p)
  BY <1>1, <1>5 DEF Releasing, Leave, UnlinkOwn, RmdirOwn, Goto, Fresh, Moves, Alive, ProcState
<1>6. CASE Evicting(p)
  <2>1. proc[p].pc = "evict"
    BY <1>6 DEF Evicting, TakeClaim, TakeClaimAgain, ReadClaim, ReclaimClaim, LeaveClaim,
                JudgeClaimGone, Check, EvictUnlink, EvictRmdir, VerifyClaim, UnlinkClaim,
                RmdirClaim, At
  <2>2. ASSUME NEW step, FrameTo(p, step) PROVE Moves(p)
    BY <1>1, <2>1, <2>2 DEF FrameTo, Moves, Alive, ProcState
  <2>3. ASSUME Fails(p) PROVE Moves(p)
    BY <1>1, <2>1, <2>3 DEF Fails, Moves, Alive, ProcState
  <2>4. ASSUME Succeeds(p) PROVE Moves(p)
    BY <1>1, <2>1, <2>3, <2>4 DEF Succeeds, Moves, Alive, ProcState
  <2>5. ASSUME NEW t, proc' = [proc EXCEPT ![p].stack = t] PROVE Moves(p)
    BY <1>1, <2>1, <2>5 DEF Moves, Alive, ProcState
  <2>6. ASSUME JudgeClaimGone(p) PROVE Moves(p)
    BY <2>5, <2>6 DEF JudgeClaimGone
  <2>7. ASSUME EvictRmdir(p) PROVE Moves(p)
    <3>1. proc' = [proc EXCEPT ![p].stack = [proc[p].stack EXCEPT ![1] = [@ EXCEPT !.step = "own", !.ok = TRUE]]]
      BY <2>1, <2>7, TopType DEF EvictRmdir
    <3> QED BY <2>5, <3>1
  <2>8. ASSUME ReadClaim(p) PROVE Moves(p)
    <3> DEFINE held == Owner(Claim(Top(p).content))
    <3>1. proc' = [proc EXCEPT ![p].stack[1].held = held,
                     ![p].stack[1].step = IF held = NoToken THEN "reclaim" ELSE "judge"]
      BY <2>8 DEF ReadClaim
    <3> HIDE DEF held
    <3>2. proc' = [proc EXCEPT ![p].stack = [proc[p].stack EXCEPT ![1] =
                     [@ EXCEPT !.held = held, !.step = IF held = NoToken THEN "reclaim" ELSE "judge"]]]
      BY <2>1, <3>1, TopType
    <3> QED BY <2>5, <3>2
  <2> QED BY <1>6, <2>2, <2>3, <2>4, <2>6, <2>7, <2>8
      DEF Evicting, TakeClaim, TakeClaimAgain, ClaimTaken, ReclaimClaim, LeaveClaim, Check,
          EvictUnlink, VerifyClaim, UnlinkClaim, RmdirClaim, Returns
<1> QED BY <1>2, <1>3, <1>4, <1>5, <1>6 DEF Step, Acquiring

LEMMA DieIsMutex ==
  ASSUME LockInv, NEW p \in Procs, Die(p)
  PROVE  [Mutex!Next]_(Mutex!vars)
<1>1. proc'[p].pc = "dead" /\ \A q \in Procs \ {p} : proc'[q] = proc[q]
  BY DEF Die, Fresh, LockInv, TypeOK
<1>2. {q \in Procs : ~Alive(q)}' = {q \in Procs : ~Alive(q)} \cup {p} /\ p \notin {q \in Procs : ~Alive(q)}
  BY <1>1 DEF Alive, Die
<1>3. Inside' = Inside \ {p}
  BY <1>1 DEF Inside
<1>4. Holder' = IF Holder = p THEN None ELSE Holder
  <2>1. CASE Holder = p
    <3>1. Inside \subseteq {p}
      BY <2>1, OneInside DEF Inside
    <3>2. Inside' = {}
      BY <1>3, <3>1
    <3> QED BY <2>1, <3>2 DEF Holder
  <2>2. CASE Holder # p
    <3>1. Inside' = Inside
      BY <1>3, <2>2, OneInside DEF Inside
    <3> QED BY <2>2, <3>1 DEF Holder
  <2> QED BY <2>1, <2>2
<1> QED BY <1>2, <1>4 DEF Mutex!Next, Mutex!Die

\* The lock implements OwnerMutex: one process at a time is inside, and none loses
\* the lock but by leaving or dying (portal-memory-lock.mjs).
THEOREM LockImplementsMutex == Spec => ImplementsMutex
<1>1. Init => Mutex!Init
  <2> SUFFICES ASSUME Init PROVE Mutex!Init
    OBVIOUS
  <2>1. \A p \in Procs : proc[p].pc = "idle"
    BY DEF Init, Fresh
  <2>2. Inside = {} /\ {p \in Procs : ~Alive(p)} = {}
    BY <2>1 DEF Inside, Alive
  <2> QED BY <2>2 DEF Mutex!Init, Holder
<1>2. LockInv /\ LockInv' /\ [Next]_vars => [Mutex!Next]_(Mutex!vars)
  <2> SUFFICES ASSUME LockInv, LockInv', [Next]_vars PROVE [Mutex!Next]_(Mutex!vars)
    OBVIOUS
  <2>1. ASSUME NEW p \in Procs, Step(p) PROVE [Mutex!Next]_(Mutex!vars)
    <3>1. Moves(p)
      BY <2>1, StepMoves
    <3>2. Only(p)
      BY <3>1 DEF Moves, Only, LockInv, TypeOK
    <3> QED BY <3>1, <3>2, StepIsMutex DEF Moves
  <2>2. ASSUME NEW p \in Procs, Die(p) PROVE [Mutex!Next]_(Mutex!vars)
    BY <2>2, DieIsMutex
  <2>3. CASE UNCHANGED vars
    BY <2>3 DEF vars, Mutex!vars, Holder, Inside, Alive
  <2> QED BY <2>1, <2>2, <2>3 DEF Next
<1> QED BY <1>1, <1>2, LockInvariant, PTL DEF Spec, ImplementsMutex, Mutex!Spec
=============================================================================
