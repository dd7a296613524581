---------------------------- MODULE StartupProofs ----------------------------
(***************************************************************************)
(* Proofs about the launch and the setup wizard, for every environment,    *)
(* every set of answers and any number of launches, failures and crashes.  *)
(*                                                                         *)
(* There are two layers. Inv is about the files: the token is never        *)
(* readable by others, and a finished setup left whole files. Loading is   *)
(* about the processes and rests on Inv: what a process has loaded is      *)
(* still what the files say, since only the operator's wizard writes them, *)
(* so the configuration is what was typed, the first time and again, and   *)
(* nobody but a reconfiguration gives up a finished setup.                 *)
(*                                                                         *)
(* In between stand what the amounts of GrinAmount are worth, by induction *)
(* over their digits, and what each step leaves in the record of its       *)
(* process.                                                                *)
(***************************************************************************)
EXTENDS Startup, Induction, TLAPS

\* The records of processes and of token files, by their fields: there is no
\* set of all environments.
IsProcess(p) ==
  p = [pc |-> p.pc, l |-> p.l, bare |-> p.bare, blind |-> p.blind, env |-> p.env,
       credential |-> p.credential, src |-> p.src, from |-> p.from,
       tries |-> p.tries, mode |-> p.mode, ans |-> p.ans]

IsSecret(s) == s = [token |-> s.token, private |-> s.private]

AnyLaunch == Launches \cup {ServiceLaunch}

\* Whether a wizard launched as l gets at the token in D, d being the
\* directories.
Owns(l, d, D) == l.root \/ (D # "etc" /\ (d[D] # Unset => ~d[D].root))

\* What a process p under name x knows of the secrets s and their
\* directories d. The service has no terminal and never runs the wizard.
Knows(x, p, s, d) ==
  LET D == secrets_dir_for(wizard_target(p.l)) IN
  /\ p.pc \in StartPC => IsProcess(p) /\ p.l \in AnyLaunch
  /\ x = "systemd" /\ p.pc \in StartPC => p.l = ServiceLaunch
  /\ x = "systemd" => p.pc \notin WizardPC
  /\ p.pc \in {"wiz_dir_mode", "wiz_remove", "wiz_token", "wiz_token_mode"}
       => d[D] # Unset
  /\ p.pc \in {"wiz_remove", "wiz_token"} /\ Owns(p.l, d, D) => d[D].private
  /\ p.pc = "wiz_token_mode" => IsSecret(s[D]) /\ d[D].private
  /\ p.pc \in {"wiz_token_mode", "wiz_truncate", "wiz_write"}
       /\ p.ans.mode # "off" => s[D].token = p.ans.token

ProcsKnow ==
  /\ proc = [x \in Procs |-> proc[x]]
  /\ \A x \in Procs : Knows(x, proc[x], secret, dir)

DirRecord == [private : BOOLEAN, root : BOOLEAN]

DiskTyped ==
  /\ file = [f \in Paths |-> file[f]]
  /\ secret = [d \in Places |-> secret[d]]
  /\ finished = [f \in Paths |-> finished[f]]
  /\ dir \in [Places -> DirRecord \cup {Unset}]
  /\ \A d \in Places : secret[d] # Unset => IsSecret(secret[d]) /\ dir[d] # Unset

Inv == DiskTyped /\ ProcsKnow /\ TokenPrivate /\ SetupWhole

-----------------------------------------------------------------------------
LEMMA TargetIsPath ==
  ASSUME NEW l \in AnyLaunch
  PROVE  wizard_target(l) \in Paths
<1>1. CASE l = ServiceLaunch
  BY <1>1 DEF ServiceLaunch, wizard_target, Paths
<1>2. CASE l \in Launches
  BY <1>2, LaunchAssumption DEF wizard_target, Paths
<1> QED
  BY <1>1, <1>2 DEF AnyLaunch

\* A token lies in one of the places, and that of a file in /etc in /etc.
LEMMA PlaceOf ==
  ASSUME NEW f \in Paths
  PROVE  secrets_dir_for(f) \in Places
BY CustomAssumption DEF secrets_dir_for, Paths, Places

LEMMA TargetPlace ==
  ASSUME NEW l \in AnyLaunch
  PROVE  secrets_dir_for(wizard_target(l)) \in Places
BY TargetIsPath, PlaceOf

\* A process keeps the rest of its record when it moves.
LEMMA ProcessMoves ==
  ASSUME NEW p, IsProcess(p), NEW pc
  PROVE  LET q == [p EXCEPT !.pc = pc] IN
         /\ IsProcess(q) /\ q.pc = pc /\ q.l = p.l /\ q.ans = p.ans
  BY DEF IsProcess

\* q is the record of a process at the place of p, launched like it.
Alike(q, p) == IsProcess(q) /\ q.pc = p.pc /\ q.l = p.l

\* So it is when another field of p changes.
LEMMA ProcessChanges ==
  ASSUME NEW p, IsProcess(p), NEW v
  PROVE  /\ Alike([p EXCEPT !.env = v], p)
         /\ Alike([p EXCEPT !.src = v], p)
         /\ Alike([p EXCEPT !.from = v], p)
         /\ Alike([p EXCEPT !.mode = v], p)
         /\ Alike([p EXCEPT !.tries = v], p)
         /\ Alike([p EXCEPT !.ans = v], p)
         /\ Alike([p EXCEPT !.blind = v], p)
<1>1. Alike([p EXCEPT !.env = v], p)
  BY DEF IsProcess, Alike
<1>2. Alike([p EXCEPT !.src = v], p)
  BY DEF IsProcess, Alike
<1>3. Alike([p EXCEPT !.from = v], p)
  BY DEF IsProcess, Alike
<1>4. Alike([p EXCEPT !.mode = v], p)
  BY DEF IsProcess, Alike
<1>5. Alike([p EXCEPT !.tries = v], p)
  BY DEF IsProcess, Alike
<1>6. Alike([p EXCEPT !.ans = v], p)
  BY DEF IsProcess, Alike
<1>7. Alike([p EXCEPT !.blind = v], p)
  BY DEF IsProcess, Alike
<1> QED
  BY <1>1, <1>2, <1>3, <1>4, <1>5, <1>6, <1>7

\* A process moves on to p; only the operator's wizard touches the secrets.
LEMMA ProcMoves ==
  ASSUME ProcsKnow, NEW x \in Procs, NEW p, proc' = [proc EXCEPT ![x] = p],
         Knows(x, p, secret', dir'),
         UNCHANGED <<secret, dir>> \/ x = "operator"
  PROVE  ProcsKnow'
<1>1. /\ proc' = [y \in Procs |-> proc'[y]]
      /\ \A y \in Procs : proc'[y] = IF y = x THEN p ELSE proc[y]
  BY DEF ProcsKnow
<1>2. ASSUME NEW y \in Procs, y # x
      PROVE  Knows(y, proc[y], secret', dir')
  <2>1. Knows(y, proc[y], secret, dir)
    BY DEF ProcsKnow
  <2>2. CASE UNCHANGED <<secret, dir>>
    BY <2>1, <2>2
  <2>3. CASE x = "operator"
    <3>1. y = "systemd"
      BY <1>2, <2>3 DEF Procs
    <3> QED
      BY <2>1, <3>1 DEF Knows, WizardPC
  <2> QED
    BY <2>2, <2>3
<1> QED
  BY <1>1, <1>2 DEF ProcsKnow

\* The same for a move that leaves the files alone.
LEMMA QuietMoves ==
  ASSUME Inv, UNCHANGED disk, UNCHANGED finished,
         NEW x \in Procs, NEW p, proc' = [proc EXCEPT ![x] = p],
         Knows(x, p, secret, dir)
  PROVE  Inv'
<1>1. UNCHANGED <<file, secret, dir, finished>>
  BY DEF disk
<1>2. ProcsKnow'
  BY <1>1, ProcMoves DEF Inv
<1> QED
  BY <1>1, <1>2 DEF Inv, DiskTyped, TokenPrivate, IsPrivate, SetupWhole

\* A process that has ended, or has yet to look for a configuration.
LEMMA EndKnows ==
  ASSUME NEW x, NEW p, p.pc \notin StartPC, NEW s, NEW d
  PROVE  Knows(x, p, s, d)
  BY DEF Knows, StartPC, WizardPC

LEMMA ExitKeeps ==
  ASSUME Inv, UNCHANGED disk, UNCHANGED finished,
         NEW x \in Procs, NEW pc \in EndPC, Exit(x, pc)
  PROVE  Inv'
<1>1. pc \notin StartPC /\ [pc |-> pc].pc = pc
  BY DEF EndPC, StartPC, WizardPC
<1> QED
  BY <1>1, EndKnows, QuietMoves DEF Exit

-----------------------------------------------------------------------------
(* Launches *)

LEMMA NewProcess ==
  ASSUME NEW x \in Procs, NEW l \in AnyLaunch, NEW env, NEW credential, NEW src,
         x = "systemd" => l = ServiceLaunch
  PROVE  Knows(x, Process(l, env, credential, src), secret, dir)
  BY DEF Process, IsProcess, Knows, StartPC, WizardPC

LEMMA LaunchKeeps ==
  ASSUME Inv, NEW s \in Starts, Launch(s.l, s.env)
  PROVE  Inv'
<1> DEFINE p == Process(s.l, s.env, Unset, Unset)
<1>1. s.l \in AnyLaunch
  BY DEF AnyLaunch, Launches
<1>2. Knows("operator", p, secret', dir') /\ UNCHANGED <<file, secret, dir, finished>>
  BY <1>1, NewProcess DEF Launch, Procs
<1>3. ProcsKnow'
  BY <1>2, ProcMoves DEF Launch, Inv, Procs
<1> QED
  BY <1>2, <1>3 DEF Inv, DiskTyped, TokenPrivate, IsPrivate, SetupWhole

LEMMA StartServiceKeeps ==
  ASSUME Inv, StartService
  PROVE  Inv'
<1>1. ASSUME NEW env, NEW credential,
             proc' = [proc EXCEPT !["systemd"] =
                        Process(ServiceLaunch, env, credential, "etc")]
      PROVE  Inv'
  <2>1. Knows("systemd", Process(ServiceLaunch, env, credential, "etc"), secret, dir)
    BY NewProcess DEF AnyLaunch, Procs
  <2> QED
    BY <1>1, <2>1, QuietMoves DEF StartService, Procs
<1> QED
  BY <1>1 DEF StartService

LEMMA InstallDropinKeeps ==
  ASSUME Inv, InstallDropin
  PROVE  Inv'
  BY DEF InstallDropin, Inv, DiskTyped, TokenPrivate, IsPrivate, SetupWhole, ProcsKnow

\* What a process that is not in the wizard knows.
LEMMA StartKnows ==
  ASSUME Inv, NEW x \in Procs, proc[x].pc \in StartPC
  PROVE  /\ IsProcess(proc[x]) /\ proc[x].l \in AnyLaunch
         /\ x = "systemd" => proc[x].l = ServiceLaunch /\ proc[x].pc \notin WizardPC
         /\ x # "systemd" => x = "operator"
         /\ wizard_target(proc[x].l) \in Paths
         /\ secrets_dir_for(wizard_target(proc[x].l)) \in Places
         /\ Knows(x, proc[x], secret, dir)
  BY TargetIsPath, TargetPlace DEF Inv, ProcsKnow, Knows, Procs

\* A process that goes on, knowing nothing of the secrets.
LEMMA GoesOn ==
  ASSUME Inv, NEW x \in Procs, proc[x].pc \in StartPC,
         NEW p, IsProcess(p), p.l = proc[x].l,
         p.pc \in {"load", "decide", "reload", "configure", "wiz_mode",
                   "wiz_rest", "wiz_dir"},
         x = "operator" \/ p.pc \notin WizardPC
  PROVE  Knows(x, p, secret, dir)
  BY StartKnows DEF Knows, StartPC, WizardPC, Procs

LEMMA LoadFirstExistingKeeps ==
  ASSUME Inv, NEW x \in Procs, LoadFirstExisting(x)
  PROVE  Inv'
<1>1. proc[x].pc \in StartPC /\ "decide" \notin WizardPC
  BY DEF LoadFirstExisting, StartPC, WizardPC
<1>2. IsProcess(proc[x])
  BY <1>1, StartKnows
<1>3. ASSUME NEW after, IsProcess(after), after.l = proc[x].l,
             proc' = [proc EXCEPT ![x] = [after EXCEPT !.pc = "decide"]]
      PROVE  Inv'
  <2> DEFINE q == [after EXCEPT !.pc = "decide"]
  <2>1. IsProcess(q) /\ q.pc = "decide" /\ q.l = proc[x].l
    BY <1>3, ProcessMoves
  <2> HIDE DEF q
  <2>2. Knows(x, q, secret, dir)
    BY <1>1, <2>1, GoesOn
  <2>3. proc' = [proc EXCEPT ![x] = q]
    BY <1>3 DEF q
  <2> QED
    BY <2>2, <2>3, QuietMoves DEF LoadFirstExisting
<1> DEFINE p == proc[x]
           f == FirstExisting(p.l)
           layered == [p EXCEPT !.env = Layer(p.env, file[f]),
                                !.from = Source(p)]
           e == Layer(p.env, file[f])
<1>4. /\ IsProcess(Loaded(p, f)) /\ Loaded(p, f).l = p.l
      /\ IsProcess(layered) /\ layered.l = p.l
  <2> DEFINE q == [p EXCEPT !.env = e]
  <2>1. IsProcess(q) /\ q.l = p.l
    BY <1>2, ProcessChanges DEF Alike
  <2> HIDE DEF q
  <2>2. IsProcess([q EXCEPT !.from = Source(p)]) /\ [q EXCEPT !.from = Source(p)].l = p.l
    BY <2>1, ProcessChanges DEF Alike
  <2> DEFINE r == [q EXCEPT !.src = f]
  <2>3. IsProcess(r) /\ r.l = p.l
    BY <2>1, ProcessChanges DEF Alike
  <2> HIDE DEF r
  <2> DEFINE t == [r EXCEPT !.from = finished[f]]
  <2>4. IsProcess(t) /\ t.l = p.l
    BY <2>3, ProcessChanges DEF Alike
  <2>5. layered = [q EXCEPT !.from = Source(p)]
    BY DEF q
  <2>6. Loaded(p, f) = t
    BY DEF Loaded, q, r
  <2> QED
    BY <2>2, <2>4, <2>5, <2>6
<1>5. CASE \E after \in {p, Loaded(p, f), layered} :
              proc' = [proc EXCEPT ![x] = [after EXCEPT !.pc = "decide"]]
  BY <1>2, <1>3, <1>4, <1>5
<1>6. CASE proc' = [proc EXCEPT ![x] = [p EXCEPT !.pc = "decide", !.blind = TRUE]]
  <2> DEFINE q == [p EXCEPT !.blind = TRUE]
  <2>1. IsProcess(q) /\ q.l = p.l
    BY <1>2, ProcessChanges DEF Alike
  <2>2. [p EXCEPT !.pc = "decide", !.blind = TRUE] = [q EXCEPT !.pc = "decide"]
    OBVIOUS
  <2> HIDE DEF q
  <2> QED
    BY <1>3, <1>6, <2>1, <2>2
<1> QED
  BY <1>5, <1>6 DEF LoadFirstExisting

\* The service is not interactive: it goes on to its configuration.
LEMMA DecideKeeps ==
  ASSUME Inv, NEW x \in Procs, Decide(x)
  PROVE  Inv'
<1> DEFINE p == proc[x]
<1>1. p.pc \in StartPC
  BY DEF Decide, StartPC
<1>2. CASE Goto(x, "configure")
  <2> DEFINE q == [p EXCEPT !.pc = "configure"]
  <2>1. IsProcess(q) /\ q.pc = "configure" /\ q.l = p.l
    BY <1>1, StartKnows, ProcessMoves
  <2> HIDE DEF q
  <2>2. Knows(x, q, secret, dir)
    BY <1>1, <2>1, GoesOn DEF WizardPC
  <2>3. proc' = [proc EXCEPT ![x] = q]
    BY <1>2 DEF Goto, q
  <2> QED
    BY <2>2, <2>3, QuietMoves DEF Decide
<1>3. CASE \E pc \in {"done", "failed"} : Exit(x, pc)
  BY <1>3, ExitKeeps DEF Decide, EndPC
<1>4. ASSUME p.l # ServiceLaunch,
             proc' = [proc EXCEPT ![x] = [p EXCEPT !.pc = "wiz_mode",
                                                   !.src = Unset,
                                                   !.from = Unset]]
      PROVE  Inv'
  <2> DEFINE r == [p EXCEPT !.pc = "wiz_mode"]
             q == [p EXCEPT !.pc = "wiz_mode", !.src = Unset, !.from = Unset]
  <2>1. IsProcess(q) /\ q.pc = "wiz_mode" /\ q.l = p.l
    <3>1. IsProcess(r) /\ r.pc = "wiz_mode" /\ r.l = p.l
      BY <1>1, StartKnows, ProcessMoves
    <3> HIDE DEF r
    <3> DEFINE t == [r EXCEPT !.src = Unset]
    <3>2. IsProcess(t) /\ t.pc = "wiz_mode" /\ t.l = p.l
      BY <3>1, ProcessChanges DEF Alike
    <3> HIDE DEF t
    <3>3. /\ IsProcess([t EXCEPT !.from = Unset])
          /\ [t EXCEPT !.from = Unset].pc = "wiz_mode"
          /\ [t EXCEPT !.from = Unset].l = p.l
      BY <3>2, ProcessChanges DEF Alike
    <3>4. q = [t EXCEPT !.from = Unset]
      BY DEF r, t
    <3> QED
      BY <3>3, <3>4
  <2> HIDE DEF q
  <2>2. Knows(x, q, secret, dir)
    BY <1>1, <1>4, <2>1, StartKnows, GoesOn
  <2>3. proc' = [proc EXCEPT ![x] = q]
    BY <1>4 DEF q
  <2> QED
    BY <2>2, <2>3, QuietMoves DEF Decide
<1>5. p.l = ServiceLaunch => Goto(x, "configure")
  BY DEF Decide, ServiceLaunch
<1>6. p.l # ServiceLaunch =>
        \/ Goto(x, "configure")
        \/ \E pc \in {"done", "failed"} : Exit(x, pc)
        \/ proc' = [proc EXCEPT ![x] = [p EXCEPT !.pc = "wiz_mode",
                                                 !.src = Unset,
                                                 !.from = Unset]]
  BY DEF Decide
<1> QED
  BY <1>2, <1>3, <1>4, <1>5, <1>6

LEMMA ConfigureKeeps ==
  ASSUME Inv, NEW x \in Procs, Configure(x)
  PROVE  Inv'
<1>1. ASSUME NEW p, proc' = [proc EXCEPT ![x] = p], p.pc \in EndPC
      PROVE  Inv'
  <2>1. Knows(x, p, secret, dir)
    BY <1>1, EndKnows DEF EndPC, StartPC, WizardPC
  <2> QED
    BY <1>1, <2>1, QuietMoves DEF Configure
<1> DEFINE p == proc[x]
           refused(fault) ==
             [pc |-> "misconfigured", l |-> p.l, bare |-> p.bare,
              blind |-> p.blind, src |-> p.src, from |-> Source(p),
              credential |-> p.credential, fault |-> fault]
           up == [pc |-> "running", l |-> p.l, bare |-> p.bare,
                  blind |-> p.blind, from |-> Source(p), cfg |-> Config(x, p.env)]
           failed == [pc |-> "failed"]
<1>2. /\ \A fault : refused(fault).pc \in EndPC
      /\ up.pc \in EndPC /\ failed.pc \in EndPC
  BY DEF EndPC
<1>3. \/ \E fault : proc' = [proc EXCEPT ![x] = refused(fault)]
      \/ proc' = [proc EXCEPT ![x] = up]
      \/ proc' = [proc EXCEPT ![x] = failed]
  BY DEF Configure, Exit
<1> HIDE DEF refused, up, failed
<1> QED
  BY <1>1, <1>2, <1>3

-----------------------------------------------------------------------------
(* The questions *)

LEMMA AskModeKeeps ==
  ASSUME Inv, NEW x \in Procs, AskMode(x)
  PROVE  Inv'
<1> DEFINE p == proc[x]
<1>1. /\ p.pc \in StartPC /\ IsProcess(p) /\ x = "operator"
  BY StartKnows DEF AskMode, StartPC, WizardPC
<1>2. ASSUME NEW q, IsProcess(q), q.l = p.l, q.pc \in {"wiz_mode", "wiz_rest"},
             proc' = [proc EXCEPT ![x] = q]
      PROVE  Inv'
  <2>1. Knows(x, q, secret, dir)
    BY <1>1, <1>2, GoesOn
  <2> QED
    BY <1>2, <2>1, QuietMoves DEF AskMode
<1>3. ASSUME NEW r, IsProcess(r), r.l = p.l, r.pc = "wiz_rest", NEW n
      PROVE  /\ IsProcess([r EXCEPT !.tries = n])
             /\ [r EXCEPT !.tries = n].l = p.l
             /\ [r EXCEPT !.tries = n].pc = "wiz_rest"
  BY <1>3, ProcessChanges DEF Alike
<1> DEFINE r == [p EXCEPT !.pc = "wiz_rest"]
<1>4. IsProcess(r) /\ r.pc = "wiz_rest" /\ r.l = p.l
  BY <1>1, ProcessMoves
<1>5. ASSUME NEW m \in PayModes,
             proc' = [proc EXCEPT ![x] = [p EXCEPT !.pc = "wiz_rest", !.mode = m,
                                                   !.tries = 0]]
      PROVE  Inv'
  <2> DEFINE t == [r EXCEPT !.mode = m]
  <2>1. IsProcess(t) /\ t.pc = "wiz_rest" /\ t.l = p.l
    <3> HIDE DEF r
    <3> QED
      BY <1>4, ProcessChanges DEF Alike
  <2>2. [p EXCEPT !.pc = "wiz_rest", !.mode = m, !.tries = 0]
          = [t EXCEPT !.tries = 0]
    OBVIOUS
  <2> HIDE DEF t
  <2> QED
    BY <1>2, <1>3, <1>5, <2>1, <2>2
<1>6. ASSUME proc' = [proc EXCEPT ![x].tries = @ + 1]
      PROVE  Inv'
  <2> DEFINE t == [p EXCEPT !.tries = p.tries + 1]
  <2>1. IsProcess(t) /\ t.pc = "wiz_mode" /\ t.l = p.l
    <3>1. p.pc = "wiz_mode"
      BY DEF AskMode
    <3>2. ASSUME NEW q, IsProcess(q), q.pc = "wiz_mode", NEW n
          PROVE  /\ IsProcess([q EXCEPT !.tries = n])
                 /\ [q EXCEPT !.tries = n].l = q.l
                 /\ [q EXCEPT !.tries = n].pc = "wiz_mode"
      BY <3>2, ProcessChanges DEF Alike
    <3> HIDE DEF p
    <3> QED
      BY <1>1, <3>1, <3>2
  <2>2. proc' = [proc EXCEPT ![x] = t]
    BY <1>6
  <2> HIDE DEF t
  <2> QED
    BY <1>2, <2>1, <2>2
<1>7. ASSUME proc' = [proc EXCEPT ![x].pc = "wiz_rest", ![x].tries = 0]
      PROVE  Inv'
  <2> DEFINE t == [r EXCEPT !.tries = 0]
  <2>1. proc' = [proc EXCEPT ![x] = t]
    BY <1>7 DEF Inv, ProcsKnow
  <2>2. IsProcess(t) /\ t.pc = "wiz_rest" /\ t.l = p.l
    <3> HIDE DEF r
    <3> QED
      BY <1>3, <1>4
  <2> HIDE DEF t
  <2> QED
    BY <1>2, <2>1, <2>2
<1> QED
  BY <1>5, <1>6, <1>7 DEF AskMode

\* Without a paid mode there is no token to write.
LEMMA AskRestKeeps ==
  ASSUME Inv, NEW x \in Procs, AskRest(x)
  PROVE  Inv'
<1> DEFINE p == proc[x]
<1>1. /\ p.pc \in StartPC /\ IsProcess(p) /\ x = "operator" /\ p.l \in AnyLaunch
  BY StartKnows DEF AskRest, StartPC, WizardPC
<1> PICK a \in AnswerSets :
      proc' = [proc EXCEPT ![x].ans = a,
                           ![x].pc = IF a.mode = "off" THEN "wiz_truncate"
                                                       ELSE "wiz_dir"]
  BY DEF AskRest
<1> DEFINE pc == IF a.mode = "off" THEN "wiz_truncate" ELSE "wiz_dir"
           r == [p EXCEPT !.ans = a]
           q == [r EXCEPT !.pc = pc]
<1>2. IsProcess(r) /\ r.l = p.l /\ r.ans = a
  <2>1. r.ans = a
    BY <1>1 DEF IsProcess
  <2> QED
    BY <1>1, <2>1, ProcessChanges DEF Alike
<1>3. proc' = [proc EXCEPT ![x] = q]
  BY DEF Inv, ProcsKnow
<1> HIDE DEF r
<1>4. IsProcess(q) /\ q.pc = pc /\ q.l = p.l /\ q.ans = a
  BY <1>2, ProcessMoves
<1> HIDE DEF q
<1>5. Knows(x, q, secret, dir)
  BY <1>1, <1>4 DEF Knows, StartPC, WizardPC
<1> QED
  BY <1>3, <1>5, QuietMoves DEF AskRest

-----------------------------------------------------------------------------
(* The files. Each step is one of the operator's, at its target f. *)

\* What a wizard knows as it moves on to another step.
LEMMA WizardMoves ==
  ASSUME Inv, NEW x \in Procs, proc[x].pc \in WizardPC,
         NEW pc \in WizardPC, Goto(x, pc)
  PROVE  LET p == proc[x]
             q == [p EXCEPT !.pc = pc]
         IN /\ x = "operator" /\ IsProcess(q) /\ q.pc = pc /\ q.l = p.l
            /\ q.ans = p.ans /\ p.l \in AnyLaunch
            /\ wizard_target(p.l) \in Paths /\ SecretsDir(x) \in Places
            /\ WizardMayUse(x) <=> Owns(p.l, dir, SecretsDir(x))
            /\ Knows(x, p, secret, dir)
            /\ proc' = [proc EXCEPT ![x] = q]
<1>1. x = "operator" /\ SecretsDir(x) \in Places
  BY StartKnows DEF StartPC, SecretsDir
<1>2. WizardMayUse(x) <=> Owns(proc[x].l, dir, SecretsDir(x))
  BY <1>1 DEF WizardMayUse, MayUse, Owns
<1>3. /\ IsProcess(proc[x]) /\ proc[x].l \in AnyLaunch
      /\ wizard_target(proc[x].l) \in Paths /\ Knows(x, proc[x], secret, dir)
  BY StartKnows DEF StartPC
<1> QED
  BY <1>1, <1>2, <1>3, ProcessMoves DEF Goto

\* A directory that is made, and one that is kept from others.
LEMMA MakeSecretsDirKeeps ==
  ASSUME Inv, NEW x \in Procs, MakeSecretsDir(x)
  PROVE  Inv'
<1> DEFINE p == proc[x]
           D == SecretsDir(x)
           q == [p EXCEPT !.pc = "wiz_dir_mode"]
<1>1. /\ x = "operator" /\ IsProcess(q) /\ q.pc = "wiz_dir_mode" /\ q.l = p.l
      /\ p.l \in AnyLaunch /\ D \in Places /\ proc' = [proc EXCEPT ![x] = q]
  BY WizardMoves DEF MakeSecretsDir, WizardPC
<1> HIDE DEF q
<1>2. p.l.root \in BOOLEAN
  <2>1. \A l \in AnyLaunch : l.root \in BOOLEAN
    <3> SUFFICES ASSUME NEW l \in AnyLaunch PROVE l.root \in BOOLEAN
      OBVIOUS
    <3>1. CASE l \in Launches
      BY <3>1, LaunchAssumption
    <3>2. CASE l = ServiceLaunch
      BY <3>2 DEF ServiceLaunch
    <3> QED
      BY <3>1, <3>2 DEF AnyLaunch
  <2>2. p.l \in AnyLaunch
    BY <1>1
  <2> QED
    BY <2>1, <2>2
<1>3. /\ \A d \in Places :
           dir'[d] = IF d = D /\ dir[d] = Unset
                       THEN [private |-> FALSE, root |-> p.l.root] ELSE dir[d]
      /\ dir' = [d \in Places |-> dir'[d]]
      /\ UNCHANGED <<file, secret, finished>>
  BY <1>1 DEF MakeSecretsDir, Inv, DiskTyped
<1>4. /\ dir' \in [Places -> DirRecord \cup {Unset}]
      /\ \A d \in Places : dir[d] # Unset => dir'[d] = dir[d]
      /\ dir'[D] # Unset
  <2>1. [private |-> FALSE, root |-> p.l.root] \in DirRecord /\ Unset \notin DirRecord
    BY <1>2, UnsetAssumption DEF DirRecord
  <2>2. \A d \in Places : dir[d] \in DirRecord \cup {Unset}
    BY DEF Inv, DiskTyped
  <2> QED
    BY <1>1, <1>3, <2>1, <2>2
<1>5. Knows(x, q, secret', dir')
  BY <1>1, <1>4 DEF Knows, StartPC, WizardPC, SecretsDir
<1>6. ProcsKnow'
  BY <1>1, <1>5, ProcMoves DEF Inv
<1>7. DiskTyped'
  BY <1>3, <1>4 DEF Inv, DiskTyped
<1>8. TokenPrivate'
  BY <1>3, <1>4 DEF Inv, TokenPrivate, IsPrivate
<1> QED
  BY <1>3, <1>6, <1>7, <1>8 DEF Inv, SetupWhole

LEMMA ProtectSecretsDirKeeps ==
  ASSUME Inv, NEW x \in Procs, ProtectSecretsDir(x)
  PROVE  Inv'
<1> DEFINE p == proc[x]
           D == SecretsDir(x)
           q == [p EXCEPT !.pc = "wiz_remove"]
<1>1. /\ x = "operator" /\ IsProcess(q) /\ q.pc = "wiz_remove" /\ q.l = p.l
      /\ p.l \in AnyLaunch /\ D \in Places /\ proc' = [proc EXCEPT ![x] = q]
      /\ WizardMayUse(x) <=> Owns(p.l, dir, D)
      /\ dir[D] # Unset
  BY WizardMoves DEF ProtectSecretsDir, WizardPC, Knows, SecretsDir
<1> HIDE DEF q
<1>2. UNCHANGED <<file, secret, finished>>
  BY DEF ProtectSecretsDir
<1>3. dir[D] \in DirRecord /\ [dir[D] EXCEPT !.private = TRUE] \in DirRecord
      /\ [dir[D] EXCEPT !.private = TRUE].private
      /\ [dir[D] EXCEPT !.private = TRUE].root = dir[D].root
  BY <1>1 DEF Inv, DiskTyped, DirRecord
<1>4. /\ dir' \in [Places -> DirRecord \cup {Unset}]
      /\ \A d \in Places : dir[d] # Unset =>
           /\ dir'[d] # Unset
           /\ dir[d].private => dir'[d].private
      /\ dir'[D] # Unset /\ dir'[D].root = dir[D].root
      /\ WizardMayUse(x) => dir'[D].private
  <2>1. CASE WizardMayUse(x)
    <3> DEFINE r == [dir[D] EXCEPT !.private = TRUE]
    <3>1. dir' = [dir EXCEPT ![D] = r]
      BY <2>1 DEF ProtectSecretsDir
    <3>2. r \in DirRecord /\ r.private = TRUE /\ r.root = dir[D].root /\ r # Unset
      BY <1>3, UnsetAssumption DEF DirRecord
    <3> HIDE DEF r
    <3> QED
      BY <1>1, <3>1, <3>2 DEF Inv, DiskTyped
  <2>2. CASE ~WizardMayUse(x)
    <3>1. dir' = dir
      BY <2>2 DEF ProtectSecretsDir
    <3> QED
      BY <1>1, <2>2, <3>1 DEF Inv, DiskTyped
  <2> QED
    BY <2>1, <2>2
<1>5. Owns(p.l, dir', D) <=> Owns(p.l, dir, D)
  BY <1>1, <1>4 DEF Owns
<1>6. Knows(x, q, secret', dir')
  BY <1>1, <1>4, <1>5 DEF Knows, StartPC, WizardPC, SecretsDir
<1>7. ProcsKnow'
  BY <1>1, <1>6, ProcMoves DEF Inv
<1>8. DiskTyped'
  BY <1>2, <1>4 DEF Inv, DiskTyped
<1>9. TokenPrivate'
  BY <1>2, <1>4 DEF Inv, TokenPrivate, IsPrivate
<1> QED
  BY <1>2, <1>7, <1>8, <1>9 DEF Inv, SetupWhole

\* What a change of the token in D leaves finished: not what the wizard's own
\* file says, and nothing that names the token.
LEMMA TouchedToken ==
  ASSUME Inv, NEW f \in Paths, NEW D, TokenTouched(f, D)
  PROVE  /\ finished' = [g \in Paths |-> finished'[g]]
         /\ \A g \in Paths :
              finished'[g] = IF g = f \/ NamesToken(g, D) THEN Unset ELSE finished[g]
         /\ \A g \in Paths : finished'[g] # Unset =>
              /\ finished'[g] = finished[g] /\ g # f
              /\ finished[g].mode # "off" => secrets_dir_for(g) # D
BY DEF TokenTouched, NamesToken

\* A step that changes the secret in D, and gives up what names it: TokenPrivate
\* holds again as the directory is private.
LEMMA SecretChanges ==
  ASSUME Inv, NEW f \in Paths, NEW D \in Places, NEW t,
         secret' = [secret EXCEPT ![D] = t],
         t # Unset => IsSecret(t), dir[D] # Unset, dir[D].private,
         TokenTouched(f, D), UNCHANGED <<file, dir>>
  PROVE  DiskTyped' /\ TokenPrivate' /\ SetupWhole'
<1>1. /\ \A d \in Places : secret'[d] = IF d = D THEN t ELSE secret[d]
      /\ secret' = [d \in Places |-> secret'[d]]
  BY DEF Inv, DiskTyped
<1>2. DiskTyped'
  BY <1>1, TouchedToken DEF Inv, DiskTyped
<1>3. TokenPrivate'
  BY <1>1 DEF Inv, TokenPrivate, IsPrivate
<1>4. SetupWhole'
  BY <1>1, TouchedToken, PlaceOf DEF Inv, SetupWhole
<1> QED
  BY <1>2, <1>3, <1>4

LEMMA RemoveSecretKeeps ==
  ASSUME Inv, NEW x \in Procs, RemoveSecret(x)
  PROVE  Inv'
<1> DEFINE p == proc[x]
           f == wizard_target(p.l)
           D == SecretsDir(x)
           q == [p EXCEPT !.pc = "wiz_token"]
<1>1. /\ x = "operator" /\ IsProcess(q) /\ q.pc = "wiz_token" /\ q.l = p.l
      /\ p.l \in AnyLaunch /\ f \in Paths /\ D \in Places
      /\ proc' = [proc EXCEPT ![x] = q]
      /\ WizardMayUse(x) <=> Owns(p.l, dir, D)
      /\ dir[D] # Unset
      /\ Owns(p.l, dir, D) => dir[D].private
  BY WizardMoves DEF RemoveSecret, WizardPC, Knows, SecretsDir
<1> HIDE DEF q
<1>2. UNCHANGED <<file, dir>>
  BY DEF RemoveSecret
<1>3. Knows(x, q, secret', dir')
  BY <1>1, <1>2 DEF Knows, StartPC, WizardPC, SecretsDir
<1>4. ProcsKnow'
  BY <1>1, <1>3, ProcMoves DEF Inv
<1>5. CASE /\ WizardMayUse(x)
           /\ secret' = [secret EXCEPT ![D] = Unset]
           /\ TokenTouched(f, D)
  BY <1>1, <1>2, <1>4, <1>5, SecretChanges DEF Inv
<1>6. CASE UNCHANGED <<secret, finished, settled>>
  BY <1>2, <1>4, <1>6 DEF Inv, DiskTyped, TokenPrivate, IsPrivate, SetupWhole
<1> QED
  BY <1>5, <1>6 DEF RemoveSecret

LEMMA WriteSecretKeeps ==
  ASSUME Inv, NEW x \in Procs, WriteSecret(x)
  PROVE  Inv'
<1> DEFINE p == proc[x]
           f == wizard_target(p.l)
           D == SecretsDir(x)
           q == [p EXCEPT !.pc = "wiz_token_mode"]
           t == [token |-> p.ans.token,
                 private |-> secret[D] # Unset /\ secret[D].private]
<1>1. /\ x = "operator" /\ IsProcess(q) /\ q.pc = "wiz_token_mode" /\ q.l = p.l
      /\ q.ans = p.ans /\ p.l \in AnyLaunch /\ f \in Paths /\ D \in Places
      /\ proc' = [proc EXCEPT ![x] = q] /\ dir[D] # Unset /\ dir[D].private
  BY WizardMoves DEF WriteSecret, WizardPC, Knows, SecretsDir
<1>2. IsSecret(t) /\ t.token = p.ans.token
  BY DEF IsSecret
<1>3. secret' = [secret EXCEPT ![D] = t] /\ UNCHANGED <<file, dir>> /\ TokenTouched(f, D)
  BY DEF WriteSecret
<1> HIDE DEF q, t
<1>4. secret'[D] = t
  BY <1>1, <1>3 DEF Inv, DiskTyped
<1>5. Knows(x, q, secret', dir')
  BY <1>1, <1>2, <1>3, <1>4 DEF Knows, StartPC, WizardPC, SecretsDir
<1>6. ProcsKnow'
  BY <1>1, <1>5, ProcMoves DEF Inv
<1> QED
  BY <1>1, <1>2, <1>3, <1>6, SecretChanges DEF Inv

\* Only the mode of the token changes.
LEMMA ProtectSecretKeeps ==
  ASSUME Inv, NEW x \in Procs, ProtectSecret(x)
  PROVE  Inv'
<1> DEFINE p == proc[x]
           D == SecretsDir(x)
           q == [p EXCEPT !.pc = "wiz_truncate"]
           t == [secret[D] EXCEPT !.private = TRUE]
<1>1. /\ x = "operator" /\ IsProcess(q) /\ q.pc = "wiz_truncate" /\ q.l = p.l
      /\ q.ans = p.ans /\ p.l \in AnyLaunch /\ D \in Places
      /\ proc' = [proc EXCEPT ![x] = q] /\ dir[D] # Unset
      /\ IsSecret(secret[D])
      /\ p.ans.mode # "off" => secret[D].token = p.ans.token
  BY WizardMoves DEF ProtectSecret, WizardPC, Knows, SecretsDir
<1>2. ASSUME NEW u, IsSecret(u), NEW private
      PROVE  LET v == [u EXCEPT !.private = private] IN
             IsSecret(v) /\ v.token = u.token /\ v.private = private
  BY <1>2 DEF IsSecret
<1>3. IsSecret(t) /\ t.token = secret[D].token /\ t.private = TRUE
  BY <1>1, <1>2
<1>4. secret' = [secret EXCEPT ![D] = t] /\ UNCHANGED <<file, dir, finished>>
  BY DEF ProtectSecret
<1> HIDE DEF q, t
<1>5. /\ \A d \in Places : secret'[d] = IF d = D THEN t ELSE secret[d]
      /\ secret' = [d \in Places |-> secret'[d]]
  BY <1>1, <1>4 DEF Inv, DiskTyped
<1>6. Knows(x, q, secret', dir')
  BY <1>1, <1>3, <1>5 DEF Knows, StartPC, WizardPC, SecretsDir
<1>7. ProcsKnow'
  BY <1>1, <1>6, ProcMoves DEF Inv
<1>8. DiskTyped' /\ TokenPrivate'
  BY <1>1, <1>3, <1>4, <1>5 DEF Inv, DiskTyped, TokenPrivate, IsPrivate
<1>9. SetupWhole'
  BY <1>1, <1>3, <1>4, <1>5, PlaceOf DEF Inv, SetupWhole
<1> QED
  BY <1>7, <1>8, <1>9 DEF Inv

LEMMA TruncateEnvFileKeeps ==
  ASSUME Inv, NEW x \in Procs, TruncateEnvFile(x)
  PROVE  Inv'
<1> DEFINE p == proc[x]
           f == wizard_target(p.l)
           q == [p EXCEPT !.pc = "wiz_write"]
<1>1. /\ x = "operator" /\ IsProcess(q) /\ q.pc = "wiz_write" /\ q.l = p.l
      /\ q.ans = p.ans /\ p.l \in AnyLaunch /\ f \in Paths
      /\ proc' = [proc EXCEPT ![x] = q]
      /\ p.ans.mode # "off" => secret[SecretsDir(x)].token = p.ans.token
  BY WizardMoves DEF TruncateEnvFile, WizardPC, Knows, SecretsDir
<1> HIDE DEF q
<1>2. /\ UNCHANGED <<secret, dir>>
      /\ file' = [file EXCEPT ![f] = NoVars]
      /\ finished' = [finished EXCEPT ![f] = Unset]
  BY DEF TruncateEnvFile, Touched
<1>3. Knows(x, q, secret', dir')
  BY <1>1, <1>2 DEF Knows, StartPC, WizardPC, SecretsDir
<1>4. ProcsKnow'
  BY <1>1, <1>2, <1>3, ProcMoves DEF Inv
<1>5. \A g \in Paths :
        /\ file'[g] = IF g = f THEN NoVars ELSE file[g]
        /\ finished'[g] = IF g = f THEN Unset ELSE finished[g]
  BY <1>2 DEF Inv, DiskTyped
<1>6. DiskTyped' /\ TokenPrivate'
  BY <1>1, <1>2 DEF Inv, DiskTyped, TokenPrivate, IsPrivate
<1>7. SetupWhole'
  BY <1>2, <1>5 DEF Inv, SetupWhole
<1> QED
  BY <1>4, <1>6, <1>7 DEF Inv

\* The last step of a setup: by now the token of its answers lies beside f.
LEMMA WriteEnvFileKeeps ==
  ASSUME Inv, NEW x \in Procs, WriteEnvFile(x)
  PROVE  Inv'
<1> DEFINE p == proc[x]
           f == wizard_target(p.l)
<1>1. /\ x = "operator" /\ IsProcess(p) /\ p.l \in AnyLaunch /\ f \in Paths
      /\ p.ans.mode # "off" => secret[secrets_dir_for(f)].token = p.ans.token
  BY StartKnows DEF WriteEnvFile, StartPC, WizardPC, Knows
<1>2. /\ UNCHANGED <<secret, dir>>
      /\ file' = [file EXCEPT ![f] = render_env(p.ans, f)]
      /\ finished' = [finished EXCEPT ![f] = p.ans]
  BY DEF WriteEnvFile
<1>3. ProcsKnow'
  <2>1. CASE Goto(x, "reload")
    <3> DEFINE q == [p EXCEPT !.pc = "reload"]
    <3>1. IsProcess(q) /\ q.pc = "reload" /\ q.l = p.l
      BY <1>1, ProcessMoves
    <3>2. proc' = [proc EXCEPT ![x] = q]
      BY <2>1 DEF Goto
    <3> HIDE DEF q
    <3>3. Knows(x, q, secret', dir')
      BY <1>1, <3>1 DEF Knows, StartPC, WizardPC
    <3> QED
      BY <1>2, <3>2, <3>3, ProcMoves DEF Inv
  <2>2. CASE Exit(x, "done")
    <3> DEFINE q == [pc |-> "done"]
    <3>1. Knows(x, q, secret', dir')
      BY EndKnows DEF StartPC, WizardPC
    <3> QED
      BY <1>2, <2>2, <3>1, ProcMoves DEF Inv, Exit
  <2> QED
    BY <2>1, <2>2 DEF WriteEnvFile
<1>4. \A g \in Paths :
        /\ file'[g] = IF g = f THEN render_env(p.ans, f) ELSE file[g]
        /\ finished'[g] = IF g = f THEN p.ans ELSE finished[g]
  BY <1>2 DEF Inv, DiskTyped
<1>5. DiskTyped' /\ TokenPrivate'
  BY <1>1, <1>2 DEF Inv, DiskTyped, TokenPrivate, IsPrivate
<1>6. SetupWhole'
  BY <1>1, <1>2, <1>4 DEF Inv, SetupWhole
<1> QED
  BY <1>3, <1>5, <1>6 DEF Inv

LEMMA ReloadKeeps ==
  ASSUME Inv, NEW x \in Procs, Reload(x)
  PROVE  Inv'
<1> DEFINE p == proc[x]
           f == wizard_target(p.l)
           q == [p EXCEPT !.env = Layer(p.env, file[f])]
           r == [q EXCEPT !.src = f]
           t == [r EXCEPT !.from = finished[f]]
           u == [t EXCEPT !.pc = "configure"]
<1>1. p.pc \in StartPC /\ IsProcess(p)
  BY StartKnows DEF Reload, StartPC
<1>2. proc' = [proc EXCEPT ![x] = u]
  BY DEF Reload, Loaded
<1>3. IsProcess(q) /\ q.l = p.l
  BY <1>1, ProcessChanges DEF Alike
<1> HIDE DEF q
<1>4. IsProcess(r) /\ r.l = p.l
  BY <1>3, ProcessChanges DEF Alike
<1> HIDE DEF r
<1>5. IsProcess(t) /\ t.l = p.l
  BY <1>4, ProcessChanges DEF Alike
<1> HIDE DEF t
<1>6. IsProcess(u) /\ u.pc = "configure" /\ u.l = p.l
  BY <1>5, ProcessMoves
<1> HIDE DEF u
<1>7. Knows(x, u, secret, dir)
  BY <1>1, <1>6, GoesOn DEF WizardPC
<1> QED
  BY <1>2, <1>7, QuietMoves DEF Reload

LEMMA CrashKeeps ==
  ASSUME Inv, NEW x \in Procs, Crash(x)
  PROVE  Inv'
<1>1. Knows(x, NoProc, secret, dir)
  BY EndKnows DEF NoProc, StartPC, WizardPC
<1> QED
  BY <1>1, QuietMoves DEF Crash

-----------------------------------------------------------------------------
(* The invariant *)

LEMMA InvInit == Init => Inv
<1> SUFFICES ASSUME Init PROVE Inv
  OBVIOUS
<1>1. DiskTyped /\ TokenPrivate /\ SetupWhole
  BY DEF Init, DiskTyped, TokenPrivate, SetupWhole
<1>2. \A x \in Procs : Knows(x, proc[x], secret, dir)
  BY EndKnows DEF Init, NoProc, StartPC, WizardPC
<1> QED
  BY <1>1, <1>2 DEF Init, Inv, ProcsKnow

LEMMA InvNext == Inv /\ [Next]_vars => Inv'
<1> SUFFICES ASSUME Inv, [Next]_vars PROVE Inv'
  OBVIOUS
<1>1. CASE UNCHANGED vars
  BY <1>1 DEF vars, Inv, DiskTyped, ProcsKnow, TokenPrivate, IsPrivate, SetupWhole
<1>2. ASSUME NEW x \in Procs, Step(x)
      PROVE  Inv'
  <2>1. CASE Fail(x)
    BY <2>1, ExitKeeps DEF Fail, EndPC
  <2> QED
    BY <1>2, <2>1, LoadFirstExistingKeeps, DecideKeeps, AskModeKeeps,
       AskRestKeeps, MakeSecretsDirKeeps, ProtectSecretsDirKeeps,
       RemoveSecretKeeps, WriteSecretKeeps, ProtectSecretKeeps,
       TruncateEnvFileKeeps, WriteEnvFileKeeps, ReloadKeeps, ConfigureKeeps
       DEF Step
<1> QED
  BY <1>1, <1>2, LaunchKeeps, StartServiceKeeps, InstallDropinKeeps, CrashKeeps
     DEF Next

\* The wizard's files and what its process knows of them.
LEMMA AlwaysInv == Spec => []Inv
  BY InvInit, InvNext, PTL DEF Spec

(* Nobody but its owner can read the token at any time, for any launches,    *)
(* answers, failures and crashes: until its own mode is set, the directory   *)
(* keeps the others out.                                                     *)
THEOREM TokenStaysPrivate == Spec => []TokenPrivate
<1>1. Inv => TokenPrivate
  BY DEF Inv
<1> QED
  BY <1>1, AlwaysInv, PTL

(* The files of a finished setup are what its answers say, the token among   *)
(* them, whatever setups and crashes came before it.                         *)
THEOREM SetupsAreWhole == Spec => []SetupWhole
<1>1. Inv => SetupWhole
  BY DEF Inv
<1> QED
  BY <1>1, AlwaysInv, PTL

-----------------------------------------------------------------------------
(* Amounts: what the texts of operators and of the program stand for. *)

\* The powers of ten up to the k-th.
Powers(power, k) ==
  /\ power \in [0 .. k -> Nat] /\ power[0] = 1
  /\ \A i \in 1 .. k : power[i] = 10 * power[i - 1]

\* There are powers of ten up to every k.
LEMMA PowersSome ==
  ASSUME NEW k \in Nat
  PROVE  \E power : Powers(power, k)
<1> DEFINE V == Nat
           step == [z \in V \X (1 .. k) |-> 10 * z[1]]
<1>1. step \in [V \X (1 .. k) -> V] /\ 1 \in V
  OBVIOUS
<1>2. \A z \in V \X (1 .. k) : step[z] = 10 * z[1]
  OBVIOUS
<1> HIDE DEF V, step
<1>3. PICK f \in [0 .. k -> V] : Steps(f, 1, k, step)
  BY <1>1, FunctionRecursion
<1>4. f[0] = 1 /\ \A i \in 1 .. k : f[i] = step[<<f[i - 1], i>>]
  BY <1>3 DEF Steps
<1>5. ASSUME NEW i \in 1 .. k PROVE f[i] = 10 * f[i - 1]
  <2>1. f[i - 1] \in V
    BY <1>3
  <2>2. <<f[i - 1], i>> \in V \X (1 .. k)
    BY <2>1
  <2> QED
    BY <1>2, <1>4, <2>2
<1> QED
  BY <1>3, <1>4, <1>5 DEF Powers, V

\* TenTo, written with a function that calls itself, is one of them.
LEMMA PowersOne ==
  ASSUME NEW k \in Nat, NEW power, Powers(power, k)
  PROVE  TenTo(k) = power[k]
<1> DEFINE body(f, i) == IF i = 0 THEN 1 ELSE 10 * f[i - 1]
           Of(f) == f = [i \in 0 .. k |-> body(f, i)]
           g == CHOOSE f : Of(f)
<1>1. TenTo(k) = g[k]
  BY DEF TenTo
<1>2. power = [i \in 0 .. k |-> power[i]]
  BY DEF Powers
<1>3. \A i \in 0 .. k : power[i] = body(power, i)
  BY DEF Powers
<1> HIDE DEF body
<1>4. Of(power)
  BY <1>2, <1>3
<1>5. Of(g)
  <2> HIDE DEF Of
  <2> QED
    BY <1>4
<1>6. \A i \in 0 .. k : g[i] = body(g, i)
  <2> HIDE DEF g
  <2> QED
    BY <1>5
<1> HIDE DEF g
<1> DEFINE S == {i \in Nat : i \in 0 .. k => g[i] = power[i]}
<1>7. 0 \in S
  BY <1>3, <1>6 DEF body
<1>8. ASSUME NEW i \in Nat, i \in S PROVE i + 1 \in S
  <2> SUFFICES ASSUME i + 1 \in 0 .. k PROVE g[i + 1] = power[i + 1]
    OBVIOUS
  <2>1. i \in 0 .. k /\ i + 1 # 0 /\ (i + 1) - 1 = i /\ g[i] = power[i]
    BY <1>8
  <2>2. body(g, i + 1) = body(power, i + 1)
    BY <2>1 DEF body
  <2> QED
    BY <1>3, <1>6, <2>2
<1>9. k \in S
  <2> HIDE DEF S
  <2> QED
    BY <1>7, <1>8, SetInduction
<1> QED
  BY <1>1, <1>9

\* What TenTo computes, by recursion.
LEMMA TenToZero == TenTo(0) = 1
<1>1. PICK power : Powers(power, 0)
  BY PowersSome
<1>2. TenTo(0) = power[0]
  BY <1>1, PowersOne
<1> QED
  BY <1>1, <1>2 DEF Powers

\* The next power of ten.
LEMMA TenToNext ==
  ASSUME NEW k \in Nat
  PROVE  TenTo(k) \in Nat /\ TenTo(k + 1) = 10 * TenTo(k)
<1>1. PICK power : Powers(power, k + 1)
  BY PowersSome
<1> DEFINE first == [i \in 0 .. k |-> power[i]]
<1>2. Powers(first, k)
  <2>1. first \in [0 .. k -> Nat] /\ first[0] = 1
    BY <1>1 DEF Powers
  <2>2. ASSUME NEW i \in 1 .. k PROVE first[i] = 10 * first[i - 1]
    <3>1. first[i] = power[i] /\ first[i - 1] = power[i - 1] /\ i \in 1 .. k + 1
      OBVIOUS
    <3> QED
      BY <1>1, <3>1 DEF Powers
  <2> QED
    BY <2>1, <2>2 DEF Powers
<1>3. TenTo(k) = power[k]
  <2>1. TenTo(k) = first[k]
    BY <1>2, PowersOne
  <2> QED
    BY <2>1
<1>4. TenTo(k + 1) = power[k + 1]
  BY <1>1, PowersOne
<1>5. power[k] \in Nat /\ power[k + 1] = 10 * power[k]
  <2>1. k + 1 \in 1 .. k + 1 /\ (k + 1) - 1 = k /\ k \in 0 .. k + 1
    OBVIOUS
  <2> QED
    BY <1>1, <2>1 DEF Powers
<1> QED
  BY <1>3, <1>4, <1>5

(* Powers of ten are positive, and grow faster than their exponents.         *)
LEMMA TenToGrows == \A k \in Nat : TenTo(k) \in Nat /\ TenTo(k) > k
<1> DEFINE S == {k \in Nat : TenTo(k) \in Nat /\ TenTo(k) > k}
<1>1. 0 \in S
  BY TenToZero
<1>2. ASSUME NEW k \in Nat, k \in S PROVE k + 1 \in S
  <2>1. TenTo(k) \in Nat /\ TenTo(k) > k /\ TenTo(k + 1) = 10 * TenTo(k)
    BY <1>2, TenToNext
  <2> QED
    BY <2>1
<1>3. \A k \in Nat : k \in S
  <2> HIDE DEF S
  <2> QED
    BY <1>1, <1>2, SetInduction
<1> QED
  BY <1>3

\* Powers of ten multiply as their exponents add.
LEMMA TenToSum ==
  ASSUME NEW m \in Nat
  PROVE  \A n \in Nat : TenTo(m + n) = TenTo(m) * TenTo(n)
<1> DEFINE S == {n \in Nat : TenTo(m + n) = TenTo(m) * TenTo(n)}
<1>1. 0 \in S
  BY TenToZero, TenToGrows
<1>2. ASSUME NEW n \in Nat, n \in S PROVE n + 1 \in S
  <2>1. /\ TenTo(m) \in Nat /\ TenTo(n) \in Nat
        /\ TenTo(n + 1) = 10 * TenTo(n)
        /\ TenTo((m + n) + 1) = 10 * TenTo(m + n)
        /\ TenTo(m + n) = TenTo(m) * TenTo(n)
    BY <1>2, TenToNext
  <2>2. m + (n + 1) = (m + n) + 1
    OBVIOUS
  <2>3. ASSUME NEW a \in Nat, NEW b \in Nat PROVE 10 * (a * b) = a * (10 * b)
    OBVIOUS
  <2>4. 10 * TenTo(m + n) = TenTo(m) * (10 * TenTo(n))
    BY <2>1, <2>3
  <2> QED
    BY <2>1, <2>2, <2>4
<1>3. \A n \in Nat : n \in S
  <2> HIDE DEF S
  <2> QED
    BY <1>1, <1>2, SetInduction
<1> QED
  BY <1>3

\* The numbers read off the digits one after the other.
Reads(read, digits) ==
  /\ read \in [0 .. Len(digits) -> Nat] /\ read[0] = 0
  /\ \A i \in 1 .. Len(digits) : read[i] = 10 * read[i - 1] + digits[i]

\* Every text can be read,
LEMMA ReadsSome ==
  ASSUME NEW digits \in Seq(Digit)
  PROVE  \E read : Reads(read, digits)
<1> DEFINE V == Nat
           n == Len(digits)
           step == [z \in V \X (1 .. n) |-> 10 * z[1] + digits[z[2]]]
<1>1. n \in Nat /\ \A i \in 1 .. n : digits[i] \in Nat
  BY DEF Digit
<1> HIDE DEF n
<1>2. step \in [V \X (1 .. n) -> V] /\ 0 \in V
  BY <1>1
<1>3. \A h \in V, i \in 1 .. n : step[<<h, i>>] = 10 * h + digits[i]
  OBVIOUS
<1> HIDE DEF V, step
<1>4. PICK f \in [0 .. n -> V] : Steps(f, 0, n, step)
  BY <1>1, <1>2, FunctionRecursion
<1>5. f[0] = 0 /\ \A i \in 1 .. n : f[i] = step[<<f[i - 1], i>>]
  BY <1>4 DEF Steps
<1>6. ASSUME NEW i \in 1 .. n PROVE f[i] = 10 * f[i - 1] + digits[i]
  <2>1. f[i - 1] \in V
    BY <1>1, <1>4
  <2> QED
    BY <1>3, <1>5, <2>1
<1> QED
  BY <1>4, <1>5, <1>6 DEF Reads, V, n

\* and Number reads it so.
LEMMA ReadsOne ==
  ASSUME NEW digits \in Seq(Digit), NEW read, Reads(read, digits)
  PROVE  Number(digits) = read[Len(digits)]
<1> DEFINE n == Len(digits)
           body(f, i) == IF i = 0 THEN 0 ELSE 10 * f[i - 1] + digits[i]
           Of(f) == f = [i \in 0 .. n |-> body(f, i)]
           g == CHOOSE f : Of(f)
<1>1. n \in Nat
  OBVIOUS
<1>2. Number(digits) = g[n]
  BY DEF Number
<1>3. read = [i \in 0 .. n |-> read[i]]
  BY DEF Reads
<1>4. \A i \in 0 .. n : read[i] = body(read, i)
  BY DEF Reads
<1> HIDE DEF n, body
<1>5. Of(read)
  BY <1>3, <1>4
<1>6. Of(g)
  <2> HIDE DEF Of
  <2> QED
    BY <1>5
<1>7. \A i \in 0 .. n : g[i] = body(g, i)
  <2> HIDE DEF g
  <2> QED
    BY <1>6
<1> HIDE DEF g
<1> DEFINE S == {i \in Nat : i \in 0 .. n => g[i] = read[i]}
<1>8. 0 \in S
  BY <1>1, <1>4, <1>7 DEF body
<1>9. ASSUME NEW i \in Nat, i \in S PROVE i + 1 \in S
  <2> SUFFICES ASSUME i + 1 \in 0 .. n PROVE g[i + 1] = read[i + 1]
    OBVIOUS
  <2>1. i \in 0 .. n /\ i + 1 # 0 /\ (i + 1) - 1 = i /\ g[i] = read[i]
    BY <1>1, <1>9
  <2>2. body(g, i + 1) = body(read, i + 1)
    BY <2>1 DEF body
  <2> QED
    BY <1>4, <1>7, <2>2
<1>10. n \in S
  <2> HIDE DEF S
  <2> QED
    BY <1>1, <1>8, <1>9, SetInduction
<1> QED
  BY <1>2, <1>10 DEF n

\* No digits make nothing.
LEMMA NumberNone == Number(<<>>) = 0
<1>1. <<>> \in Seq(Digit) /\ Len(<<>>) = 0
  OBVIOUS
<1>2. PICK read : Reads(read, <<>>)
  BY <1>1, ReadsSome
<1>3. Number(<<>>) = read[0]
  BY <1>1, <1>2, ReadsOne
<1> QED
  BY <1>2, <1>3 DEF Reads

(* A digit more makes the number ten times as large, and adds itself.        *)
LEMMA NumberAppend ==
  ASSUME NEW digits \in Seq(Digit), NEW d \in Digit
  PROVE  /\ Number(digits) \in Nat
         /\ Number(Append(digits, d)) = 10 * Number(digits) + d
<1> DEFINE n == Len(digits)
           more == Append(digits, d)
<1>1. /\ n \in Nat /\ more \in Seq(Digit) /\ Len(more) = n + 1 /\ more[n + 1] = d
      /\ \A i \in 1 .. n : more[i] = digits[i]
  OBVIOUS
<1> HIDE DEF more
<1>2. PICK read : Reads(read, more)
  BY <1>1, ReadsSome
<1> DEFINE first == [i \in 0 .. n |-> read[i]]
<1>3. Reads(first, digits)
  <2>1. first \in [0 .. n -> Nat] /\ first[0] = 0
    BY <1>1, <1>2 DEF Reads
  <2>2. ASSUME NEW i \in 1 .. n PROVE first[i] = 10 * first[i - 1] + digits[i]
    <3>1. first[i] = read[i] /\ first[i - 1] = read[i - 1] /\ i \in 1 .. n + 1
      BY <1>1
    <3> HIDE DEF first
    <3> QED
      BY <1>1, <1>2, <3>1 DEF Reads
  <2> QED
    BY <2>1, <2>2 DEF Reads
<1>4. Number(digits) = read[n]
  <2>1. Number(digits) = first[n]
    BY <1>3, ReadsOne
  <2> QED
    BY <1>1, <2>1
<1>5. Number(more) = read[n + 1]
  BY <1>1, <1>2, ReadsOne
<1>6. read[n] \in Nat /\ read[n + 1] = 10 * read[n] + d
  <2>1. n + 1 \in 1 .. n + 1 /\ (n + 1) - 1 = n /\ n \in 0 .. n + 1
    BY <1>1
  <2> HIDE DEF n
  <2> QED
    BY <1>1, <1>2, <2>1 DEF Reads
<1> QED
  BY <1>4, <1>5, <1>6 DEF more

\* Digits make a natural number.
LEMMA NumberType ==
  ASSUME NEW digits \in Seq(Digit)
  PROVE  Number(digits) \in Nat
BY NumberAppend DEF Digit

(* The digits of two texts together.                                         *)
LEMMA NumberJoin ==
  ASSUME NEW s \in Seq(Digit)
  PROVE  \A t \in Seq(Digit) :
           Number(s \o t) = Number(s) * TenTo(Len(t)) + Number(t)
<1> DEFINE S == {t \in Seq(Digit) :
                   Number(s \o t) = Number(s) * TenTo(Len(t)) + Number(t)}
<1>1. <<>> \in S
  <2>1. s \o <<>> = s /\ Len(<<>>) = 0 /\ <<>> \in Seq(Digit)
    OBVIOUS
  <2>2. Number(s) \in Nat
    BY NumberType
  <2> QED
    BY <2>1, <2>2, NumberNone, TenToZero
<1>2. ASSUME NEW t \in Seq(Digit), NEW d \in Digit, t \in S
      PROVE  Append(t, d) \in S
  <2>1. /\ s \o Append(t, d) = Append(s \o t, d) /\ s \o t \in Seq(Digit)
        /\ Append(t, d) \in Seq(Digit) /\ Len(Append(t, d)) = Len(t) + 1
        /\ Len(t) \in Nat
    OBVIOUS
  <2> DEFINE a == Number(s)
             b == TenTo(Len(t))
             c == Number(t)
  <2>2. a \in Nat /\ b \in Nat /\ c \in Nat /\ d \in Nat
    BY <2>1, NumberType, TenToGrows DEF Digit
  <2>3. Number(s \o t) = a * b + c
    BY <1>2
  <2>4. Number(Append(s \o t, d)) = 10 * (a * b + c) + d
    BY <2>1, <2>3, NumberAppend
  <2>5. TenTo(Len(t) + 1) = 10 * b
    BY <2>1, TenToNext
  <2>6. Number(Append(t, d)) = 10 * c + d
    BY NumberAppend
  <2> HIDE DEF a, b, c
  <2>7. 10 * (a * b + c) + d = a * (10 * b) + (10 * c + d)
    BY <2>2
  <2>8. Number(s \o Append(t, d)) = a * TenTo(Len(t) + 1) + Number(Append(t, d))
    BY <2>1, <2>4, <2>5, <2>6, <2>7
  <2> QED
    BY <2>1, <2>8 DEF a
<1>3. \A t \in Seq(Digit) : t \in S
  <2> HIDE DEF S
  <2> QED
    BY <1>1, <1>2, SequenceInduction
<1> QED
  BY <1>3

\* Quotient and remainder.
LEMMA DivMod ==
  ASSUME NEW a \in Nat, NEW b \in Nat \ {0}
  PROVE  a \div b \in Nat /\ a % b \in 0 .. b - 1 /\ a = b * (a \div b) + (a % b)
OBVIOUS

\* There is one quotient, and one remainder.
LEMMA DivUnique ==
  ASSUME NEW a \in Nat, NEW b \in Nat \ {0}, NEW q \in Nat, NEW r \in 0 .. b - 1,
         a = b * q + r
  PROVE  a \div b = q /\ a % b = r
<1> DEFINE u == a \div b
           v == a % b
<1>1. u \in Nat /\ v \in 0 .. b - 1 /\ a = b * u + v
  BY DivMod
<1> HIDE DEF u, v
<1>2. ASSUME NEW x \in Nat, NEW y \in Nat, x < y PROVE b * x + b <= b * y
  <2>1. PICK z \in Nat : y = x + 1 + z
    <3>1. y - x - 1 \in Nat /\ y = x + 1 + (y - x - 1)
      BY <1>2
    <3> QED
      BY <3>1
  <2>2. b * y = b * x + b + b * z /\ b * z \in Nat
    BY <2>1
  <2> QED
    BY <2>2
<1>3. ~(u < q) /\ ~(q < u)
  BY <1>1, <1>2
<1>4. u = q
  BY <1>1, <1>3
<1> QED
  BY <1>1, <1>4 DEF u, v

\* A digit more is cut off,
LEMMA DivTwice ==
  ASSUME NEW m \in Nat, NEW t \in Nat \ {0}
  PROVE  m \div (10 * t) = (m \div t) \div 10
<1> DEFINE a == m \div t
           b == m % t
           c == a \div 10
           d == a % 10
<1>1. a \in Nat /\ b \in 0 .. t - 1 /\ m = t * a + b
  BY DivMod
<1>2. c \in Nat /\ d \in 0 .. 9 /\ a = 10 * c + d
  <2> HIDE DEF a
  <2> QED
    BY <1>1
<1> HIDE DEF a, b, c, d
<1>3. m = (10 * t) * c + (t * d + b)
  BY <1>1, <1>2
<1>4. t * d <= t * 9
  BY <1>2
<1>5. t * d + b \in 0 .. (10 * t) - 1
  BY <1>1, <1>2, <1>4
<1>6. 10 * t \in Nat \ {0}
  OBVIOUS
<1>7. m \div (10 * t) = c
  BY <1>2, <1>3, <1>5, <1>6, DivUnique
<1> QED
  BY <1>7 DEF a, c

\* or kept.
LEMMA ModTwice ==
  ASSUME NEW m \in Nat, NEW t \in Nat \ {0}
  PROVE  m % (10 * t) = 10 * ((m \div 10) % t) + (m % 10)
<1> DEFINE a == m \div 10
           b == m % 10
           c == a \div t
           d == a % t
<1>1. a \in Nat /\ b \in 0 .. 9 /\ m = 10 * a + b
  OBVIOUS
<1>2. c \in Nat /\ d \in 0 .. t - 1 /\ a = t * c + d
  <2> HIDE DEF a
  <2> QED
    BY <1>1, DivMod
<1> HIDE DEF a, b, c, d
<1>3. m = (10 * t) * c + (10 * d + b)
  BY <1>1, <1>2
<1>4. 10 * d + b \in 0 .. (10 * t) - 1
  BY <1>1, <1>2
<1>5. 10 * t \in Nat \ {0}
  OBVIOUS
<1>6. m % (10 * t) = 10 * d + b
  BY <1>2, <1>3, <1>4, <1>5, DivUnique
<1> QED
  BY <1>6 DEF a, b, d

(* The last digits of a number, as many as asked for.                        *)
LEMMA NumberPadded ==
  ASSUME NEW m \in Nat, NEW width \in Nat
  PROVE  /\ Padded(m, width) \in Seq(Digit) /\ Len(Padded(m, width)) = width
         /\ Number(Padded(m, width)) = m % TenTo(width)
<1> DEFINE digits == Padded(m, width)
           read == [j \in 0 .. width |-> (m \div TenTo(width - j)) % TenTo(j)]
<1>1. \A j \in 0 .. width : TenTo(j) \in Nat \ {0} /\ TenTo(width - j) \in Nat \ {0}
  BY TenToGrows
<1>2. \A j \in 0 .. width : m \div TenTo(width - j) \in Nat
  BY <1>1, DivMod
<1>3. digits = [k \in 1 .. width |-> (m \div TenTo(width - k)) % 10]
  BY DEF Padded
<1>4. digits \in Seq(Digit) /\ Len(digits) = width
  <2>1. ASSUME NEW k \in 1 .. width
        PROVE  (m \div TenTo(width - k)) % 10 \in Digit
    <3>1. m \div TenTo(width - k) \in Nat
      BY <1>2
    <3> QED
      BY <3>1 DEF Digit
  <2> QED
    BY <1>3, <2>1
<1> HIDE DEF digits
<1>5. Reads(read, digits)
  <2>1. ASSUME NEW j \in 0 .. width
        PROVE  (m \div TenTo(width - j)) % TenTo(j) \in Nat
    <3>1. m \div TenTo(width - j) \in Nat /\ TenTo(j) \in Nat \ {0}
      BY <1>1, <1>2
    <3>2. \A a \in Nat, b \in Nat \ {0} : a % b \in Nat
      BY DivMod
    <3> QED
      BY <3>1, <3>2
  <2>2. read \in [0 .. width -> Nat]
    BY <2>1
  <2>3. read[0] = 0
    <3>1. read[0] = (m \div TenTo(width - 0)) % TenTo(0)
      OBVIOUS
    <3>2. m \div TenTo(width - 0) \in Nat
      BY <1>2
    <3>3. \A k \in Nat : k % 1 = 0
      OBVIOUS
    <3> QED
      BY <3>1, <3>2, <3>3, TenToZero
  <2>4. ASSUME NEW j \in 1 .. width PROVE read[j] = 10 * read[j - 1] + digits[j]
    <3> DEFINE t == TenTo(width - j)
               s == TenTo(j - 1)
    <3>1. /\ j - 1 \in Nat /\ width - j \in Nat /\ (j - 1) + 1 = j
          /\ (width - j) + 1 = width - (j - 1)
      OBVIOUS
    <3>2. t \in Nat \ {0} /\ s \in Nat \ {0}
      BY <3>1, TenToGrows
    <3>3. TenTo(j) = 10 * s /\ TenTo(width - (j - 1)) = 10 * t
      <4>1. TenTo((j - 1) + 1) = 10 * s /\ TenTo((width - j) + 1) = 10 * t
        BY <3>1, TenToNext
      <4> QED
        BY <3>1, <4>1
    <3>4. read[j] = (m \div t) % (10 * s)
      BY <3>3
    <3>5. read[j - 1] = (m \div (10 * t)) % s
      BY <3>3
    <3>6. digits[j] = (m \div t) % 10
      BY <1>3
    <3> HIDE DEF t, s, read
    <3>7. m \div t \in Nat
      BY <3>2, DivMod
    <3>8. (m \div t) % (10 * s) = 10 * (((m \div t) \div 10) % s) + ((m \div t) % 10)
      BY <3>2, <3>7, ModTwice
    <3>9. m \div (10 * t) = (m \div t) \div 10
      BY <3>2, DivTwice
    <3> QED
      BY <3>4, <3>5, <3>6, <3>8, <3>9
  <2> HIDE DEF read
  <2> QED
    BY <1>4, <2>2, <2>3, <2>4 DEF Reads
<1>6. read[width] = m % TenTo(width)
  <2>1. read[width] = (m \div TenTo(width - width)) % TenTo(width)
    OBVIOUS
  <2>2. m \div 1 = m /\ width - width = 0
    OBVIOUS
  <2> QED
    BY <2>1, <2>2, TenToZero
<1> HIDE DEF read
<1>7. Number(digits) = read[width]
  BY <1>4, <1>5, ReadsOne
<1> QED
  BY <1>4, <1>6, <1>7 DEF digits

(* A number is shorter than its width.                                       *)
LEMMA WidthSuffices ==
  ASSUME NEW n \in Nat
  PROVE  Width(n) \in 1 .. n + 1 /\ n < TenTo(Width(n))
<1> DEFINE Fits1(k) == n < TenTo(k) /\ (k = 1 \/ n >= TenTo(k - 1))
           S == {m \in Nat : m >= 1 /\ n < TenTo(m) => \E k \in 1 .. m : Fits1(k)}
<1>1. 0 \in S
  OBVIOUS
<1>2. ASSUME NEW m \in Nat, m \in S PROVE m + 1 \in S
  <2> SUFFICES ASSUME n < TenTo(m + 1) PROVE \E k \in 1 .. m + 1 : Fits1(k)
    OBVIOUS
  <2>1. CASE m = 0
    <3>1. Fits1(1) /\ 1 \in 1 .. m + 1
      BY <2>1
    <3> QED
      BY <3>1
  <2>2. CASE m >= 1 /\ n < TenTo(m)
    BY <1>2, <2>2
  <2>3. CASE ~(n < TenTo(m))
    <3>1. TenTo(m) \in Nat
      BY TenToGrows
    <3>2. (m + 1) - 1 = m /\ m + 1 \in 1 .. m + 1 /\ n >= TenTo(m)
      BY <2>3, <3>1
    <3> QED
      BY <3>2
  <2> QED
    BY <2>1, <2>2, <2>3
<1>3. n + 1 \in S
  <2> HIDE DEF S
  <2>1. \A m \in Nat : m \in S
    BY <1>1, <1>2, SetInduction
  <2> QED
    BY <2>1
<1>4. n < TenTo(n + 1)
  <2>1. TenTo(n + 1) \in Nat /\ TenTo(n + 1) > n + 1
    BY TenToGrows
  <2> QED
    BY <2>1
<1>5. \E k \in 1 .. n + 1 : Fits1(k)
  BY <1>3, <1>4
<1> QED
  BY <1>5 DEF Width

(* A bounded set of numbers has a largest.                                   *)
LEMMA MaxIs ==
  ASSUME NEW n \in Nat
  PROVE  \A S \in SUBSET (0 .. n) :
           S # {} => Max(S) \in S /\ \A k \in S : k <= Max(S)
<1> DEFINE Top(S, m) == m \in S /\ \A k \in S : k <= m
           T == {j \in Nat : \A S \in SUBSET (0 .. j) : S # {} => \E m \in S : Top(S, m)}
<1>1. 0 \in T
  <2> SUFFICES ASSUME NEW S \in SUBSET (0 .. 0), S # {} PROVE \E m \in S : Top(S, m)
    OBVIOUS
  <2>1. \A k \in S : k = 0
    OBVIOUS
  <2>2. PICK m \in S : m = 0
    BY <2>1
  <2> QED
    BY <2>1, <2>2
<1>2. ASSUME NEW j \in Nat, j \in T PROVE j + 1 \in T
  <2> SUFFICES ASSUME NEW S \in SUBSET (0 .. j + 1), S # {}
               PROVE  \E m \in S : Top(S, m)
    OBVIOUS
  <2>1. CASE j + 1 \in S
    BY <2>1
  <2>2. CASE j + 1 \notin S
    <3>1. S \in SUBSET (0 .. j)
      BY <2>2
    <3> QED
      BY <1>2, <3>1
  <2> QED
    BY <2>1, <2>2
<1>3. n \in T
  <2> HIDE DEF T
  <2>1. \A j \in Nat : j \in T
    BY <1>1, <1>2, SetInduction
  <2> QED
    BY <2>1
<1> SUFFICES ASSUME NEW S \in SUBSET (0 .. n), S # {}
             PROVE  Max(S) \in S /\ \A k \in S : k <= Max(S)
  OBVIOUS
<1>4. \E m \in S : \A k \in S : m >= k
  <2>1. PICK m \in S : Top(S, m)
    BY <1>3
  <2> QED
    BY <2>1
<1>5. Max(S) \in S /\ \A k \in S : Max(S) >= k
  BY <1>4 DEF Max
<1>6. ASSUME NEW m \in 0 .. n, NEW k \in 0 .. n, m >= k PROVE k <= m
  BY <1>6
<1> QED
  BY <1>5, <1>6

(* The zeros after the last digit that is none count nothing.                *)
LEMMA NumberZeros ==
  ASSUME NEW digits \in Seq(Digit), NEW j \in 0 .. Len(digits),
         \A k \in 1 .. Len(digits) : k > j => digits[k] = 0
  PROVE  /\ SubSeq(digits, 1, j) \in Seq(Digit) /\ Len(SubSeq(digits, 1, j)) = j
         /\ Number(digits) = Number(SubSeq(digits, 1, j)) * TenTo(Len(digits) - j)
<1> DEFINE n == Len(digits)
           front(k) == [i \in 1 .. k |-> digits[i]]
           S == {m \in Nat : m <= n - j =>
                   Number(front(j + m)) = Number(front(j)) * TenTo(m)}
<1>1. n \in Nat /\ j \in Nat /\ j <= n /\ n - j \in Nat /\ j + (n - j) = n
  OBVIOUS
<1>2. \A k \in 0 .. n : front(k) \in Seq(Digit) /\ Len(front(k)) = k
  OBVIOUS
<1>3. ASSUME NEW k \in 0 .. n, k + 1 <= n
      PROVE  front(k + 1) = Append(front(k), digits[k + 1]) /\ digits[k + 1] \in Digit
  BY <1>3
<1>4. SubSeq(digits, 1, j) = front(j) /\ front(n) = digits
  OBVIOUS
<1> HIDE DEF front
<1>5. 0 \in S
  <2>1. Number(front(j)) \in Nat /\ j + 0 = j
    BY <1>1, <1>2, NumberType
  <2> QED
    BY <2>1, TenToZero
<1>6. ASSUME NEW m \in Nat, m \in S PROVE m + 1 \in S
  <2> SUFFICES ASSUME m + 1 <= n - j
               PROVE  Number(front(j + (m + 1))) = Number(front(j)) * TenTo(m + 1)
    OBVIOUS
  <2>1. j + m \in 0 .. n /\ (j + m) + 1 <= n /\ (j + m) + 1 > j
        /\ j + (m + 1) = (j + m) + 1 /\ (j + m) + 1 \in 1 .. n
    BY <1>1
  <2>2. digits[(j + m) + 1] = 0
    BY <2>1
  <2>3. front((j + m) + 1) = Append(front(j + m), 0) /\ 0 \in Digit
    BY <1>3, <2>1, <2>2
  <2>4. Number(front((j + m) + 1)) = 10 * Number(front(j + m)) + 0
    BY <1>2, <2>1, <2>3, NumberAppend
  <2>5. Number(front(j + m)) = Number(front(j)) * TenTo(m)
    BY <1>6, <2>1
  <2>6. TenTo(m) \in Nat /\ TenTo(m + 1) = 10 * TenTo(m)
    BY TenToNext
  <2>7. Number(front(j)) \in Nat
    BY <1>1, <1>2, NumberType
  <2>8. ASSUME NEW a \in Nat, NEW b \in Nat PROVE 10 * (a * b) + 0 = a * (10 * b)
    OBVIOUS
  <2> QED
    BY <2>1, <2>4, <2>5, <2>6, <2>7, <2>8
<1>7. n - j \in S
  <2> HIDE DEF S
  <2>1. \A m \in Nat : m \in S
    BY <1>5, <1>6, SetInduction
  <2> QED
    BY <1>1, <2>1
<1>8. Number(front(n)) = Number(front(j)) * TenTo(n - j)
  <2>1. Number(front(j + (n - j))) = Number(front(j)) * TenTo(n - j)
    BY <1>1, <1>7
  <2> QED
    BY <1>1, <2>1
<1> QED
  BY <1>1, <1>2, <1>4, <1>8

\* What is left when the zeros at the end are gone.
LEMMA NumberTrimmed ==
  ASSUME NEW digits \in Seq(Digit)
  PROVE  LET t == TrimEndZeros(digits) IN
         /\ t \in Seq(Digit) /\ Len(t) \in 0 .. Len(digits)
         /\ Number(digits) = Number(t) * TenTo(Len(digits) - Len(t))
<1> DEFINE n == Len(digits)
           S == {0} \cup {k \in DOMAIN digits : digits[k] # 0}
           j == Max(S)
<1>1. n \in Nat /\ DOMAIN digits = 1 .. n
  OBVIOUS
<1>2. S \in SUBSET (0 .. n) /\ S # {}
  BY <1>1
<1>3. TrimEndZeros(digits) = SubSeq(digits, 1, j)
  BY DEF TrimEndZeros
<1>4. \A k \in 1 .. n : k \notin S => digits[k] = 0
  BY <1>1
<1> HIDE DEF S
<1>5. j \in S /\ \A k \in S : k <= j
  BY <1>1, <1>2, MaxIs
<1>6. j \in 0 .. n /\ \A k \in 1 .. n : k > j => digits[k] = 0
  <2>1. j \in 0 .. n
    BY <1>2, <1>5
  <2>2. ASSUME NEW k \in 1 .. n, k > j PROVE k \notin S
    BY <1>1, <1>5, <2>1, <2>2
  <2> QED
    BY <1>4, <2>1, <2>2
<1> HIDE DEF j
<1> QED
  BY <1>3, <1>6, NumberZeros

(* The sum of what stands before and after the dot is what all the digits    *)
(* make.                                                                     *)
LEMMA ExactValue ==
  ASSUME NEW a \in Amount, NEW nano \in Nat, Len(a.frac) <= Decimals,
         nano = Number(a.whole) * Nanogrin
                  + Number(a.frac) * TenTo(Decimals - Len(a.frac))
  PROVE  Exact(nano, a)
<1> DEFINE w == Number(a.whole)
           f == Number(a.frac)
           l == Len(a.frac)
           t == TenTo(l)
           s == TenTo(Decimals - l)
<1>1. a.whole \in Seq(Digit) /\ a.frac \in Seq(Digit)
  BY DEF Amount
<1>2. l \in Nat /\ Decimals \in Nat /\ Decimals - l \in Nat
      /\ l + (Decimals - l) = Decimals
  BY <1>1, AmountAssumption
<1>3. w \in Nat /\ f \in Nat /\ t \in Nat /\ s \in Nat
  BY <1>1, <1>2, NumberType, TenToGrows
<1>4. Nanogrin = t * s
  <2>1. TenTo(l + (Decimals - l)) = t * s
    BY <1>2, TenToSum
  <2> QED
    BY <1>2, <2>1 DEF Nanogrin
<1>5. Number(a.whole \o a.frac) = w * t + f
  BY <1>1, NumberJoin
<1> HIDE DEF w, f, t, s
<1>6. (w * (t * s) + f * s) * t = (w * t + f) * (t * s)
  BY <1>3
<1>7. nano * t = Number(a.whole \o a.frac) * Nanogrin
  BY <1>4, <1>5, <1>6 DEF w, f, t, s
<1> QED
  BY <1>7 DEF Exact, t

(* What an operator writes is read to the nanogrin, for any number of        *)
(* digits, or refused (config.rs:129-162).                                   *)
THEOREM ReadExactly ==
  ASSUME NEW a \in Amount, grin_to_nanogrin(a) # Invalid
  PROVE  grin_to_nanogrin(a) \in 0 .. MaxU64 /\ Exact(grin_to_nanogrin(a), a)
<1> DEFINE nano == Number(a.whole) * Nanogrin
                     + Number(a.frac) * TenTo(Decimals - Len(a.frac))
<1>1. ~Malformed(a) /\ ~(nano > MaxU64) /\ grin_to_nanogrin(a) = nano
  BY DEF grin_to_nanogrin
<1>2. a.whole \in Seq(Digit) /\ a.frac \in Seq(Digit)
  BY DEF Amount
<1>3. Len(a.frac) \in Nat /\ Len(a.frac) <= Decimals
      /\ Decimals - Len(a.frac) \in Nat /\ MaxU64 \in Nat
  BY <1>1, <1>2, AmountAssumption DEF Malformed
<1>4. nano \in Nat
  <2>1. Nanogrin \in Nat /\ TenTo(Decimals - Len(a.frac)) \in Nat
    BY <1>3, AmountAssumption, TenToGrows DEF Nanogrin
  <2>2. Number(a.whole) \in Nat /\ Number(a.frac) \in Nat
    BY <1>2, NumberType
  <2> QED
    BY <2>1, <2>2
<1>5. Exact(nano, a)
  BY <1>3, <1>4, ExactValue
<1> HIDE DEF nano
<1> QED
  BY <1>1, <1>3, <1>4, <1>5

(* What the program writes out is well formed, exact, and what it reads back *)
(* is what it had (config.rs:164-174).                                       *)
THEOREM WrittenExactly ==
  ASSUME NEW nano \in Nat
  PROVE  LET a == nanogrin_to_grin(nano) IN
         /\ a \in Amount /\ ~Malformed(a) /\ Exact(nano, a)
         /\ nano <= MaxU64 => grin_to_nanogrin(a) = nano
<1> DEFINE a == nanogrin_to_grin(nano)
           q == nano \div Nanogrin
           r == nano % Nanogrin
           d == Padded(r, Decimals)
           f == TrimEndZeros(d)
           w == Padded(q, Width(q))
           back == Number(a.whole) * Nanogrin
                     + Number(a.frac) * TenTo(Decimals - Len(a.frac))
<1>1. Nanogrin \in Nat \ {0} /\ Decimals \in Nat /\ MaxU64 \in Nat
      /\ Nanogrin = TenTo(Decimals)
  BY AmountAssumption, TenToGrows DEF Nanogrin
<1>2. q \in Nat /\ r \in 0 .. Nanogrin - 1 /\ nano = Nanogrin * q + r
  BY <1>1, DivMod
<1>3. a = [whole |-> w, frac |-> f, junk |-> FALSE]
  BY DEF nanogrin_to_grin
<1> HIDE DEF a, q, r
<1>4. Width(q) \in Nat /\ Width(q) >= 1 /\ q < TenTo(Width(q)) /\ TenTo(Width(q)) \in Nat
  BY <1>2, WidthSuffices, TenToGrows
<1>5. \A x \in Nat, y \in Nat : x < y => x % y = x
  <2> SUFFICES ASSUME NEW x \in Nat, NEW y \in Nat, x < y PROVE x % y = x
    OBVIOUS
  <2>1. y \in Nat \ {0} /\ x \in 0 .. y - 1 /\ x = y * 0 + x
    OBVIOUS
  <2> QED
    BY <2>1, DivUnique
<1>6. w \in Seq(Digit) /\ Len(w) >= 1 /\ Number(w) = q
  BY <1>2, <1>4, <1>5, NumberPadded
<1>7. d \in Seq(Digit) /\ Len(d) = Decimals /\ Number(d) = r
  <2>1. r \in Nat /\ r < TenTo(Decimals)
    BY <1>1, <1>2
  <2> QED
    BY <1>1, <1>5, <2>1, NumberPadded
<1> HIDE DEF d, w
<1>8. f \in Seq(Digit) /\ Len(f) \in 0 .. Decimals
      /\ r = Number(f) * TenTo(Decimals - Len(f))
  BY <1>7, NumberTrimmed
<1> HIDE DEF f
<1>9. a.whole = w /\ a.frac = f /\ a.junk = FALSE /\ a \in Amount
  BY <1>3, <1>6, <1>8 DEF Amount
<1>10. ~Malformed(a)
  <2>1. \A s : s = <<>> => Len(s) = 0
    OBVIOUS
  <2>2. w # <<>>
    BY <1>6, <2>1
  <2> QED
    BY <1>1, <1>8, <1>9, <2>2 DEF Malformed
<1>11. nano = back
  BY <1>1, <1>2, <1>6, <1>8, <1>9
<1>12. Exact(nano, a)
  BY <1>1, <1>8, <1>9, <1>11, ExactValue
<1>13. nano <= MaxU64 => grin_to_nanogrin(a) = nano
  <2>1. grin_to_nanogrin(a) = IF Malformed(a) \/ back > MaxU64 THEN Invalid ELSE back
    BY DEF grin_to_nanogrin
  <2> HIDE DEF back
  <2> QED
    BY <1>1, <1>10, <1>11, <2>1
<1> QED
  BY <1>9, <1>10, <1>12, <1>13 DEF a

-----------------------------------------------------------------------------
(* What each step leaves in the record of its process. *)

\* q is a process like p but for field k.
SameBut(q, p, k) ==
  /\ IsProcess(q)
  /\ k # "pc" => q.pc = p.pc
  /\ k # "env" => q.env = p.env
  /\ k # "src" => q.src = p.src
  /\ k # "from" => q.from = p.from
  /\ k # "tries" => q.tries = p.tries
  /\ k # "mode" => q.mode = p.mode
  /\ k # "ans" => q.ans = p.ans
  /\ k # "blind" => q.blind = p.blind
  /\ q.l = p.l /\ q.bare = p.bare /\ q.credential = p.credential

\* What an EXCEPT of each field leaves.
LEMMA SetPc ==
  ASSUME NEW p, IsProcess(p), NEW v, NEW q, q = [p EXCEPT !.pc = v]
  PROVE  SameBut(q, p, "pc") /\ q.pc = v
BY DEF IsProcess, SameBut

LEMMA SetEnv ==
  ASSUME NEW p, IsProcess(p), NEW v, NEW q, q = [p EXCEPT !.env = v]
  PROVE  SameBut(q, p, "env") /\ q.env = v
BY DEF IsProcess, SameBut

LEMMA SetSrc ==
  ASSUME NEW p, IsProcess(p), NEW v, NEW q, q = [p EXCEPT !.src = v]
  PROVE  SameBut(q, p, "src") /\ q.src = v
BY DEF IsProcess, SameBut

LEMMA SetFrom ==
  ASSUME NEW p, IsProcess(p), NEW v, NEW q, q = [p EXCEPT !.from = v]
  PROVE  SameBut(q, p, "from") /\ q.from = v
BY DEF IsProcess, SameBut

LEMMA SetTries ==
  ASSUME NEW p, IsProcess(p), NEW v, NEW q, q = [p EXCEPT !.tries = v]
  PROVE  SameBut(q, p, "tries") /\ q.tries = v
BY DEF IsProcess, SameBut

LEMMA SetMode ==
  ASSUME NEW p, IsProcess(p), NEW v, NEW q, q = [p EXCEPT !.mode = v]
  PROVE  SameBut(q, p, "mode") /\ q.mode = v
BY DEF IsProcess, SameBut

LEMMA SetAns ==
  ASSUME NEW p, IsProcess(p), NEW v, NEW q, q = [p EXCEPT !.ans = v]
  PROVE  SameBut(q, p, "ans") /\ q.ans = v
BY DEF IsProcess, SameBut

LEMMA SetBlind ==
  ASSUME NEW p, IsProcess(p), NEW v, NEW q, q = [p EXCEPT !.blind = v]
  PROVE  SameBut(q, p, "blind") /\ q.blind = v
BY DEF IsProcess, SameBut

\* q has loaded what p has, and the same was typed.
Holds(q, p) ==
  /\ q.l = p.l /\ q.bare = p.bare /\ q.credential = p.credential
  /\ q.env = p.env /\ q.src = p.src /\ q.from = p.from /\ q.ans = p.ans

Kept(q, p) == Holds(q, p) /\ q.blind = p.blind

\* A step of x alone, which leaves its process as q.
Becomes(x, q) ==
  /\ proc'[x] = q
  /\ \A y \in Procs : y # x => proc'[y] = proc[y]

\* An EXCEPT of proc is such a step.
LEMMA StepBecomes ==
  ASSUME Inv, NEW x \in Procs, NEW q, proc' = [proc EXCEPT ![x] = q]
  PROVE  Becomes(x, q)
BY DEF Inv, ProcsKnow, Becomes

\* Goto keeps all of the process but its place.
LEMMA GoesTo ==
  ASSUME Inv, NEW x \in Procs, proc[x].pc \in StartPC, NEW pc, Goto(x, pc)
  PROVE  \E q : Becomes(x, q) /\ q.pc = pc /\ Kept(q, proc[x])
<1> DEFINE q == [proc[x] EXCEPT !.pc = pc]
<1>1. SameBut(q, proc[x], "pc") /\ q.pc = pc
  BY StartKnows, SetPc
<1>2. proc' = [proc EXCEPT ![x] = q]
  BY DEF Goto
<1> HIDE DEF q
<1>3. Becomes(x, q)
  BY <1>2, StepBecomes
<1> QED
  BY <1>1, <1>3 DEF SameBut, Kept, Holds

\* An exit leaves nothing but the place.
LEMMA Exits ==
  ASSUME Inv, NEW x \in Procs, NEW pc, Exit(x, pc)
  PROVE  \E q : Becomes(x, q) /\ q.pc = pc
<1> DEFINE q == [pc |-> pc]
<1>1. q.pc = pc /\ proc' = [proc EXCEPT ![x] = q]
  BY DEF Exit
<1> HIDE DEF q
<1> QED
  BY <1>1, StepBecomes

\* A process that could read the first file adds what it sets, and remembers
\* which file it was.
LEMMA LoadsFile ==
  ASSUME Inv, NEW x \in Procs, proc[x].pc = "load",
         LET p == proc[x]
             f == FirstExisting(p.l)
             after == CASE f = Unset -> p
                        [] f # Unset /\ p.src = Unset -> Loaded(p, f)
                        [] OTHER -> [p EXCEPT !.env = Layer(p.env, file[f]),
                                              !.from = Source(p)]
         IN proc' = [proc EXCEPT ![x] = [after EXCEPT !.pc = "decide"]]
  PROVE  LET p == proc[x]
             f == FirstExisting(p.l)
         IN \E q :
              /\ Becomes(x, q) /\ q.pc = "decide"
              /\ q.l = p.l /\ q.bare = p.bare /\ q.credential = p.credential
              /\ q.ans = p.ans /\ q.blind = p.blind
              /\ f = Unset => Kept(q, p)
              /\ f # Unset => q.env = Layer(p.env, file[f])
              /\ f # Unset /\ p.src = Unset => q.src = f /\ q.from = finished[f]
              /\ f # Unset /\ p.src # Unset => q.src = p.src /\ q.from = Source(p)
<1> DEFINE p == proc[x]
           f == FirstExisting(p.l)
           e == Layer(p.env, file[f])
           s == Source(p)
<1>1. IsProcess(p)
  BY StartKnows DEF StartPC
<1> DEFINE r == [p EXCEPT !.env = e]
           r1 == [r EXCEPT !.src = f]
           r2 == [r1 EXCEPT !.from = finished[f]]
           r3 == [r EXCEPT !.from = s]
<1>2. SameBut(r, p, "env") /\ r.env = e
  BY <1>1, SetEnv
<1>3. r2 = Loaded(p, f) /\ r3 = [p EXCEPT !.env = e, !.from = s]
  BY DEF Loaded
<1>4. \E after \in {p, r2, r3} :
        /\ proc' = [proc EXCEPT ![x] = [after EXCEPT !.pc = "decide"]]
        /\ f = Unset => after = p
        /\ f # Unset /\ p.src = Unset => after = r2
        /\ f # Unset /\ p.src # Unset => after = r3
  BY <1>3
<1> HIDE DEF r
<1>5. SameBut(r1, r, "src") /\ r1.src = f
  BY <1>2, SetSrc DEF SameBut
<1>6. SameBut(r3, r, "from") /\ r3.from = s
  BY <1>2, SetFrom DEF SameBut
<1> HIDE DEF r1, r3
<1>7. SameBut(r2, r1, "from") /\ r2.from = finished[f]
  BY <1>5, SetFrom DEF SameBut
<1> HIDE DEF r2
<1> PICK after \in {p, r2, r3} :
        /\ proc' = [proc EXCEPT ![x] = [after EXCEPT !.pc = "decide"]]
        /\ f = Unset => after = p
        /\ f # Unset /\ p.src = Unset => after = r2
        /\ f # Unset /\ p.src # Unset => after = r3
  BY <1>4
<1> DEFINE q == [after EXCEPT !.pc = "decide"]
<1>8. IsProcess(after)
  BY <1>1, <1>6, <1>7 DEF SameBut
<1>9. SameBut(q, after, "pc") /\ q.pc = "decide"
  <2> HIDE DEF p
  <2> QED
    BY <1>8, SetPc
<1>10. Becomes(x, q)
  BY StepBecomes
<1> HIDE DEF q, p, f, e, s
<1>11. /\ q.l = p.l /\ q.bare = p.bare /\ q.credential = p.credential
       /\ q.ans = p.ans /\ q.blind = p.blind
  BY <1>2, <1>5, <1>6, <1>7, <1>9 DEF SameBut
<1>12. f = Unset => Kept(q, p)
  BY <1>9 DEF SameBut, Kept, Holds
<1>13. f # Unset => q.env = e
  BY <1>2, <1>5, <1>6, <1>7, <1>9 DEF SameBut
<1>14. f # Unset /\ p.src = Unset => q.src = f /\ q.from = finished[f]
  BY <1>2, <1>5, <1>6, <1>7, <1>9 DEF SameBut
<1>15. f # Unset /\ p.src # Unset => q.src = p.src /\ q.from = s
  BY <1>2, <1>5, <1>6, <1>7, <1>9 DEF SameBut
<1>16. \E z : /\ Becomes(x, z) /\ z.pc = "decide"
              /\ z.l = p.l /\ z.bare = p.bare /\ z.credential = p.credential
              /\ z.ans = p.ans /\ z.blind = p.blind
              /\ f = Unset => Kept(z, p)
              /\ f # Unset => z.env = e
              /\ f # Unset /\ p.src = Unset => z.src = f /\ z.from = finished[f]
              /\ f # Unset /\ p.src # Unset => z.src = p.src /\ z.from = s
  BY <1>9, <1>10, <1>11, <1>12, <1>13, <1>14, <1>15
<1> QED
  BY <1>16 DEF p, f, e, s

\* LoadFirstExisting reads the first file there is, or goes on blind.
LEMMA Loads ==
  ASSUME Inv, NEW x \in Procs, LoadFirstExisting(x)
  PROVE  LET p == proc[x]
             f == FirstExisting(p.l)
         IN \E q :
              /\ Becomes(x, q) /\ q.pc = "decide" /\ q.ans = p.ans
              /\ q.l = p.l /\ q.bare = p.bare /\ q.credential = p.credential
              /\ \/ q.blind /\ Holds(q, p)
                 \/ /\ q.blind = p.blind
                    /\ f = Unset => Kept(q, p)
                    /\ f # Unset => q.env = Layer(p.env, file[f])
                    /\ f # Unset /\ p.src = Unset => q.src = f /\ q.from = finished[f]
                    /\ f # Unset /\ p.src # Unset => q.src = p.src /\ q.from = Source(p)
<1> DEFINE p == proc[x]
           f == FirstExisting(p.l)
           q == [p EXCEPT !.blind = TRUE]
           r == [q EXCEPT !.pc = "decide"]
<1>1. IsProcess(p) /\ p.pc = "load"
  BY StartKnows DEF LoadFirstExisting, StartPC
<1>2. CASE proc' = [proc EXCEPT ![x] = [p EXCEPT !.pc = "decide", !.blind = TRUE]]
  <2>1. proc' = [proc EXCEPT ![x] = r]
    BY <1>2
  <2>2. SameBut(q, p, "blind") /\ q.blind = TRUE
    BY <1>1, SetBlind
  <2> HIDE DEF q
  <2>3. SameBut(r, q, "pc") /\ r.pc = "decide"
    BY <2>2, SetPc DEF SameBut
  <2> HIDE DEF r
  <2>4. Becomes(x, r)
    BY <2>1, StepBecomes
  <2>5. r.blind /\ Holds(r, p)
    BY <2>2, <2>3 DEF SameBut, Holds
  <2> QED
    BY <2>3, <2>4, <2>5 DEF Holds
<1>3. CASE LET after == CASE f = Unset -> p
                          [] f # Unset /\ p.src = Unset -> Loaded(p, f)
                          [] OTHER -> [p EXCEPT !.env = Layer(p.env, file[f]),
                                                !.from = Source(p)]
           IN proc' = [proc EXCEPT ![x] = [after EXCEPT !.pc = "decide"]]
  BY <1>1, <1>3, LoadsFile
<1> QED
  BY <1>2, <1>3 DEF LoadFirstExisting

\* Reload adds the file of the wizard's target.
LEMMA Reloads ==
  ASSUME Inv, NEW x \in Procs, Reload(x)
  PROVE  LET p == proc[x]
             f == wizard_target(p.l)
         IN \E q :
              /\ Becomes(x, q) /\ q.pc = "configure"
              /\ q.l = p.l /\ q.bare = p.bare /\ q.credential = p.credential
              /\ q.ans = p.ans /\ q.blind = p.blind
              /\ q.env = Layer(p.env, file[f])
              /\ q.src = f /\ q.from = finished[f]
<1> DEFINE p == proc[x]
           f == wizard_target(p.l)
           e == Layer(p.env, file[f])
           g == finished[f]
<1>1. IsProcess(p)
  BY StartKnows DEF Reload, StartPC
<1> DEFINE r == [p EXCEPT !.env = e]
           r1 == [r EXCEPT !.src = f]
           r2 == [r1 EXCEPT !.from = g]
           q == [r2 EXCEPT !.pc = "configure"]
<1>2. proc' = [proc EXCEPT ![x] = q]
  BY DEF Reload, Loaded
<1>3. SameBut(r, p, "env") /\ r.env = e
  BY <1>1, SetEnv
<1> HIDE DEF r, p, f, e, g
<1>4. SameBut(r1, r, "src") /\ r1.src = f
  BY <1>3, SetSrc DEF SameBut
<1> HIDE DEF r1
<1>5. SameBut(r2, r1, "from") /\ r2.from = g
  BY <1>4, SetFrom DEF SameBut
<1> HIDE DEF r2
<1>6. SameBut(q, r2, "pc") /\ q.pc = "configure"
  BY <1>5, SetPc DEF SameBut
<1> HIDE DEF q
<1>7. Becomes(x, q)
  BY <1>2, StepBecomes
<1>8. /\ q.l = p.l /\ q.bare = p.bare /\ q.credential = p.credential
      /\ q.ans = p.ans /\ q.blind = p.blind /\ q.env = e /\ q.src = f /\ q.from = g
  BY <1>3, <1>4, <1>5, <1>6 DEF SameBut
<1>9. \E z : /\ Becomes(x, z) /\ z.pc = "configure"
             /\ z.l = p.l /\ z.bare = p.bare /\ z.credential = p.credential
             /\ z.ans = p.ans /\ z.blind = p.blind /\ z.env = e /\ z.src = f /\ z.from = g
  BY <1>6, <1>7, <1>8
<1> QED
  BY <1>9 DEF p, f, e, g

\* Decide goes on to the configuration, ends the process, or asks.
LEMMA Decides ==
  ASSUME Inv, NEW x \in Procs, Decide(x)
  PROVE  LET p == proc[x]
             present == config_present(p.env)
         IN \E q : Becomes(x, q) /\
              \/ /\ q.pc = "configure" /\ Kept(q, p)
                 /\ p.l.command = "serve" /\ (present \/ ~p.l.tty)
              \/ q.pc \in {"done", "failed"}
              \/ /\ q.pc = "wiz_mode" /\ q.src = Unset /\ q.from = Unset
                 /\ q.l = p.l /\ q.bare = p.bare /\ q.credential = p.credential
                 /\ q.env = p.env /\ q.ans = p.ans /\ q.blind = p.blind
                 /\ p.l.command \in {"serve", "setup"} => ~present
                 /\ ~(p.l.command = "serve" /\ ~p.l.tty)
<1> DEFINE p == proc[x]
           present == config_present(p.env)
<1>1. p.pc \in StartPC /\ IsProcess(p)
  BY StartKnows DEF Decide, StartPC
<1>2. \/ p.l.command = "serve" /\ (present \/ ~p.l.tty) /\ Goto(x, "configure")
      \/ \E pc \in {"done", "failed"} : Exit(x, pc)
      \/ /\ ~(p.l.command = "serve" /\ (present \/ ~p.l.tty))
         /\ ~(p.l.command = "setup" /\ present)
         /\ proc' = [proc EXCEPT ![x] = [p EXCEPT !.pc = "wiz_mode",
                                                  !.src = Unset, !.from = Unset]]
  BY DEF Decide
<1>3. Goto(x, "configure") => \E q : Becomes(x, q) /\ q.pc = "configure" /\ Kept(q, p)
  BY <1>1, GoesTo
<1>4. (\E pc \in {"done", "failed"} : Exit(x, pc))
        => \E q : Becomes(x, q) /\ q.pc \in {"done", "failed"}
  BY Exits
<1>5. ASSUME ~(p.l.command = "serve" /\ (present \/ ~p.l.tty)),
             ~(p.l.command = "setup" /\ present),
             proc' = [proc EXCEPT ![x] = [p EXCEPT !.pc = "wiz_mode",
                                                   !.src = Unset, !.from = Unset]]
      PROVE  \E q : /\ Becomes(x, q)
                    /\ q.pc = "wiz_mode" /\ q.src = Unset /\ q.from = Unset
                    /\ q.l = p.l /\ q.bare = p.bare /\ q.credential = p.credential
                    /\ q.env = p.env /\ q.ans = p.ans /\ q.blind = p.blind
  <2> DEFINE r == [p EXCEPT !.pc = "wiz_mode"]
             r1 == [r EXCEPT !.src = Unset]
             q == [r1 EXCEPT !.from = Unset]
  <2>1. proc' = [proc EXCEPT ![x] = q]
    BY <1>5
  <2>2. SameBut(r, p, "pc") /\ r.pc = "wiz_mode"
    BY <1>1, SetPc
  <2> HIDE DEF r, p
  <2>3. SameBut(r1, r, "src") /\ r1.src = Unset
    BY <2>2, SetSrc DEF SameBut
  <2> HIDE DEF r1
  <2>4. SameBut(q, r1, "from") /\ q.from = Unset
    BY <2>3, SetFrom DEF SameBut
  <2> HIDE DEF q
  <2>5. Becomes(x, q)
    BY <2>1, StepBecomes
  <2> QED
    BY <2>2, <2>3, <2>4, <2>5 DEF SameBut
<1>6. ASSUME ~(p.l.command = "serve" /\ (present \/ ~p.l.tty)),
             ~(p.l.command = "setup" /\ present)
      PROVE  /\ p.l.command \in {"serve", "setup"} => ~present
             /\ ~(p.l.command = "serve" /\ ~p.l.tty)
  BY <1>6
<1> HIDE DEF p, present
<1>7. \E q : Becomes(x, q) /\
              \/ /\ q.pc = "configure" /\ Kept(q, p)
                 /\ p.l.command = "serve" /\ (present \/ ~p.l.tty)
              \/ q.pc \in {"done", "failed"}
              \/ /\ q.pc = "wiz_mode" /\ q.src = Unset /\ q.from = Unset
                 /\ q.l = p.l /\ q.bare = p.bare /\ q.credential = p.credential
                 /\ q.env = p.env /\ q.ans = p.ans /\ q.blind = p.blind
                 /\ p.l.command \in {"serve", "setup"} => ~present
                 /\ ~(p.l.command = "serve" /\ ~p.l.tty)
  BY <1>2, <1>3, <1>4, <1>5, <1>6
<1> QED
  BY <1>7 DEF p, present

\* An answer about the mode changes nothing but what was typed so far.
LEMMA AsksMode ==
  ASSUME Inv, NEW x \in Procs, AskMode(x)
  PROVE  \E q : /\ Becomes(x, q) /\ q.pc \in {"wiz_mode", "wiz_rest"}
                /\ Kept(q, proc[x])
<1> DEFINE p == proc[x]
<1>1. IsProcess(p) /\ p.pc = "wiz_mode"
  BY StartKnows DEF AskMode, StartPC, WizardPC
<1>2. ASSUME NEW pc, NEW m, NEW n, NEW q,
             q = [[[p EXCEPT !.pc = pc] EXCEPT !.mode = m] EXCEPT !.tries = n]
      PROVE  q.pc = pc /\ Kept(q, p)
  <2> DEFINE r == [p EXCEPT !.pc = pc]
             r1 == [r EXCEPT !.mode = m]
  <2>1. SameBut(r, p, "pc") /\ r.pc = pc
    BY <1>1, SetPc
  <2>2. q = [r1 EXCEPT !.tries = n]
    BY <1>2
  <2> HIDE DEF r, p
  <2>3. SameBut(r1, r, "mode")
    BY <2>1, SetMode DEF SameBut
  <2> HIDE DEF r1
  <2>4. SameBut(q, r1, "tries")
    BY <2>2, <2>3, SetTries DEF SameBut
  <2> QED
    BY <2>1, <2>3, <2>4 DEF SameBut, Kept, Holds
<1>3. ASSUME NEW pc, NEW n, NEW q, q = [[p EXCEPT !.pc = pc] EXCEPT !.tries = n]
      PROVE  q.pc = pc /\ Kept(q, p)
  <2> DEFINE r == [p EXCEPT !.pc = pc]
  <2>1. SameBut(r, p, "pc") /\ r.pc = pc
    BY <1>1, SetPc
  <2>2. q = [r EXCEPT !.tries = n]
    BY <1>3
  <2> HIDE DEF r, p
  <2>3. SameBut(q, r, "tries")
    BY <2>1, <2>2, SetTries DEF SameBut
  <2> QED
    BY <2>1, <2>3 DEF SameBut, Kept, Holds
<1>4. ASSUME NEW m,
             proc' = [proc EXCEPT ![x] = [p EXCEPT !.pc = "wiz_rest", !.mode = m,
                                                   !.tries = 0]]
      PROVE  \E q : Becomes(x, q) /\ q.pc = "wiz_rest" /\ Kept(q, p)
  <2> DEFINE q == [[[p EXCEPT !.pc = "wiz_rest"] EXCEPT !.mode = m] EXCEPT !.tries = 0]
  <2>1. q.pc = "wiz_rest" /\ Kept(q, p)
    <3> HIDE DEF p
    <3> QED
      BY <1>2
  <2>2. proc' = [proc EXCEPT ![x] = q]
    BY <1>4
  <2> HIDE DEF q
  <2> QED
    BY <2>1, <2>2, StepBecomes
<1>5. ASSUME proc' = [proc EXCEPT ![x].tries = @ + 1]
      PROVE  \E q : Becomes(x, q) /\ q.pc = "wiz_mode" /\ Kept(q, p)
  <2> DEFINE q == [p EXCEPT !.tries = p.tries + 1]
  <2>1. SameBut(q, p, "tries")
    BY <1>1, SetTries
  <2>2. proc' = [proc EXCEPT ![x] = q]
    BY <1>5
  <2> HIDE DEF q
  <2>3. Becomes(x, q)
    BY <2>2, StepBecomes
  <2> QED
    BY <1>1, <2>1, <2>3 DEF SameBut, Kept, Holds
<1>6. ASSUME proc' = [proc EXCEPT ![x].pc = "wiz_rest", ![x].tries = 0]
      PROVE  \E q : Becomes(x, q) /\ q.pc = "wiz_rest" /\ Kept(q, p)
  <2> DEFINE q == [[p EXCEPT !.pc = "wiz_rest"] EXCEPT !.tries = 0]
  <2>1. q.pc = "wiz_rest" /\ Kept(q, p)
    <3> HIDE DEF p
    <3> QED
      BY <1>3
  <2>2. proc' = [proc EXCEPT ![x] = q]
    BY <1>6 DEF Inv, ProcsKnow
  <2> HIDE DEF q
  <2> QED
    BY <2>1, <2>2, StepBecomes
<1> QED
  BY <1>4, <1>5, <1>6 DEF AskMode

\* The other questions give the answers.
LEMMA AsksRest ==
  ASSUME Inv, NEW x \in Procs, AskRest(x)
  PROVE  LET p == proc[x] IN
         \E q : /\ Becomes(x, q) /\ q.pc \in {"wiz_truncate", "wiz_dir"}
                /\ q.l = p.l /\ q.bare = p.bare /\ q.credential = p.credential
                /\ q.env = p.env /\ q.src = p.src /\ q.from = p.from
                /\ q.blind = p.blind
                /\ q.ans \in AnswerSets
                /\ q.pc = "wiz_truncate" => q.ans.mode = "off"
<1> DEFINE p == proc[x]
<1>1. IsProcess(p)
  BY StartKnows DEF AskRest, StartPC, WizardPC
<1> PICK a \in AnswerSets :
      proc' = [proc EXCEPT ![x].ans = a,
                           ![x].pc = IF a.mode = "off" THEN "wiz_truncate"
                                                       ELSE "wiz_dir"]
  BY DEF AskRest
<1> DEFINE pc == IF a.mode = "off" THEN "wiz_truncate" ELSE "wiz_dir"
           r == [p EXCEPT !.ans = a]
           q == [r EXCEPT !.pc = pc]
<1>2. SameBut(r, p, "ans") /\ r.ans = a
  BY <1>1, SetAns
<1>3. proc' = [proc EXCEPT ![x] = q]
  BY DEF Inv, ProcsKnow
<1> HIDE DEF r
<1>4. SameBut(q, r, "pc") /\ q.pc = pc
  BY <1>2, SetPc DEF SameBut
<1> HIDE DEF q
<1>5. Becomes(x, q)
  BY <1>3, StepBecomes
<1> QED
  BY <1>2, <1>4, <1>5 DEF SameBut

-----------------------------------------------------------------------------
(* Env files. *)

\* A rendered file sets each of the variables, or leaves it unset.
LEMMA RenderDomain ==
  ASSUME NEW a, NEW f
  PROVE  render_env(a, f) = [v \in Vars |-> render_env(a, f)[v]]
BY DEF render_env, NoVars

\* The variables the wizard writes.
LEMMA RenderVars ==
  ASSUME NEW a, NEW f
  PROVE  LET r == render_env(a, f)
             paid == a.mode # "off"
         IN /\ r["DOMAIN"] = a.domain
            /\ r["BASE_URL"] = [https |-> TRUE, host |-> a.domain]
            /\ r["PAY_MODE"] = a.mode
            /\ r["NAME_PRICE"] = IF a.mode = "name" THEN a.price ELSE Unset
            /\ r["WRITE_PRICE"] = IF a.mode = "write" THEN a.price ELSE Unset
            /\ r["URL"] = IF paid THEN "goblinpay" ELSE Unset
            /\ r["TOKEN"] = Unset
            /\ r["TOKEN_FILE"] = IF paid THEN secrets_dir_for(f) ELSE Unset
            /\ r["TRANSFERS"] = IF a.transfers THEN TRUE ELSE Unset
            /\ r["NODE_URL"] = IF a.transfers THEN "node" ELSE Unset
BY DEF render_env, NoVars, Vars

\* Nothing is set already.
LEMMA LayerBare ==
  ASSUME NEW vs, vs = [v \in Vars |-> vs[v]]
  PROVE  Layer(NoVars, vs) = vs
<1>1. Layer(NoVars, vs) = [v \in Vars |-> vs[v]]
  BY DEF Layer, NoVars
<1> QED
  BY <1>1

\* The order in which env files are looked for.
LEMMA MinIs ==
  ASSUME NEW S \in SUBSET Int, NEW m \in S, \A n \in S : m <= n
  PROVE  Min(S) = m
<1>1. \E x \in S : \A y \in S : x <= y
  OBVIOUS
<1>2. Min(S) \in S /\ \A y \in S : Min(S) <= y
  BY <1>1 DEF Min
<1>3. ASSUME NEW x \in Int, x <= m, m <= x PROVE x = m
  BY <1>3
<1> QED
  BY <1>2, <1>3

FirstOf(l) ==
  CASE l.envfile # Unset /\ file[l.envfile] # Unset -> l.envfile
    [] ~(l.envfile # Unset /\ file[l.envfile] # Unset) /\ file["etc"] # Unset -> "etc"
    [] ~(l.envfile # Unset /\ file[l.envfile] # Unset) /\ file["etc"] = Unset ->
         IF file["dotenv"] # Unset THEN "dotenv" ELSE Unset

\* The smallest index is the first of them.
LEMMA FirstExistingIs ==
  ASSUME NEW l
  PROVE  FirstExisting(l) = FirstOf(l)
<1> DEFINE fs == env_file_candidates(l)
           found == {i \in DOMAIN fs : file[fs[i]] # Unset}
<1>1. CASE l.envfile # Unset
  <2>1. DOMAIN fs = 1 .. 3 /\ fs[1] = l.envfile /\ fs[2] = "etc" /\ fs[3] = "dotenv"
    BY <1>1 DEF env_file_candidates
  <2> HIDE DEF fs
  <2>2. \A m \in 1 .. 3 : m \in found /\ (\A n \in found : m <= n) => Min(found) = m
    BY <2>1, MinIs
  <2>3. /\ 1 \in found <=> file[l.envfile] # Unset
        /\ 2 \in found <=> file["etc"] # Unset
        /\ 3 \in found <=> file["dotenv"] # Unset
        /\ \A i \in found : i \in {1, 2, 3}
    BY <2>1
  <2>4. FirstExisting(l) = IF found = {} THEN Unset ELSE fs[Min(found)]
    BY DEF FirstExisting, fs
  <2> HIDE DEF found
  <2>5. CASE file[l.envfile] # Unset
    BY <1>1, <2>1, <2>2, <2>3, <2>4, <2>5 DEF FirstOf
  <2>6. CASE file[l.envfile] = Unset /\ file["etc"] # Unset
    BY <1>1, <2>1, <2>2, <2>3, <2>4, <2>6 DEF FirstOf
  <2>7. CASE file[l.envfile] = Unset /\ file["etc"] = Unset
    BY <1>1, <2>1, <2>2, <2>3, <2>4, <2>7 DEF FirstOf
  <2> QED
    BY <2>5, <2>6, <2>7
<1>2. CASE l.envfile = Unset
  <2>1. DOMAIN fs = 1 .. 2 /\ fs[1] = "etc" /\ fs[2] = "dotenv"
    BY <1>2 DEF env_file_candidates
  <2> HIDE DEF fs
  <2>2. \A m \in 1 .. 2 : m \in found /\ (\A n \in found : m <= n) => Min(found) = m
    BY <2>1, MinIs
  <2>3. /\ 1 \in found <=> file["etc"] # Unset
        /\ 2 \in found <=> file["dotenv"] # Unset
        /\ \A i \in found : i \in {1, 2}
    BY <2>1
  <2>4. FirstExisting(l) = IF found = {} THEN Unset ELSE fs[Min(found)]
    BY DEF FirstExisting, fs
  <2> HIDE DEF found
  <2>5. CASE file["etc"] # Unset
    BY <1>2, <2>1, <2>2, <2>3, <2>4, <2>5 DEF FirstOf
  <2>6. CASE file["etc"] = Unset
    BY <1>2, <2>1, <2>2, <2>3, <2>4, <2>6 DEF FirstOf
  <2> QED
    BY <2>5, <2>6
<1> QED
  BY <1>1, <1>2

\* Where a wizard writes is where its launch looks, first of all if it is
\* root's or its environment names the file.
LEMMA TargetIsLookedAt ==
  ASSUME NEW l \in AnyLaunch
  PROVE  LET f == FirstExisting(l)
             t == wizard_target(l)
         IN /\ f # Unset => f \in Paths /\ file[f] # Unset
            /\ file[t] # Unset => f # Unset
            /\ file[t] # Unset /\ (l.root \/ l.envfile # Unset) => f = t
            /\ file[t] # Unset /\ file["etc"] = Unset => f = t
            /\ ~l.root /\ l.envfile = Unset /\ file["etc"] # Unset => f = "etc"
            /\ ~l.root /\ l.envfile = Unset => t = "dotenv"
<1>1. l.root \in BOOLEAN /\ l.envfile \in {Unset, "custom", "etc", "dotenv"}
  <2>1. CASE l = ServiceLaunch
    BY <2>1 DEF ServiceLaunch
  <2>2. CASE l \in Launches
    BY <2>2, LaunchAssumption DEF Paths
  <2> QED
    BY <2>1, <2>2 DEF AnyLaunch
<1>2. Unset # "etc" /\ Unset # "dotenv" /\ Unset # "custom"
  BY UnsetAssumption DEF Paths
<1>3. FirstExisting(l) = FirstOf(l)
  BY FirstExistingIs
<1>4. CASE l.envfile # Unset
  BY <1>1, <1>2, <1>3, <1>4 DEF FirstOf, wizard_target, Paths
<1>5. CASE l.envfile = Unset /\ l.root
  BY <1>1, <1>2, <1>3, <1>5 DEF FirstOf, wizard_target, Paths
<1>6. CASE l.envfile = Unset /\ ~l.root
  BY <1>1, <1>2, <1>3, <1>6 DEF FirstOf, wizard_target, Paths
<1> QED
  BY <1>1, <1>4, <1>5, <1>6

-----------------------------------------------------------------------------
(* The configuration that answers give. *)

\* env has what the wizard wrote to f for the answers a. A free authority may
\* have been handed the credential of a paid one.
Shows(env, a, f) ==
  \A v \in Vars :
    \/ env[v] = render_env(a, f)[v]
    \/ v = "TOKEN_FILE" /\ a.mode = "off" /\ env[v] = Credential

ConfigOf(a, token) ==
  [domain      |-> a.domain,
   base_url    |-> [https |-> TRUE, host |-> a.domain],
   pay_mode    |-> a.mode,
   name_price  |-> IF a.mode = "name" THEN grin_to_nanogrin(a.price) ELSE 0,
   write_price |-> IF a.mode = "write" THEN grin_to_nanogrin(a.price) ELSE 0,
   url         |-> IF a.mode # "off" THEN "goblinpay" ELSE Empty,
   token       |-> token,
   transfers   |-> a.transfers,
   node_url    |-> IF a.transfers THEN "node" ELSE Empty]

TypedToken(a) == IF a.mode # "off" THEN a.token ELSE Empty

\* Nothing typed is a value that stands for something else.
LEMMA AnswersTyped ==
  ASSUME NEW a \in AnswerSets
  PROVE  /\ a.domain # Empty /\ a.domain # Unset /\ a.mode \in PayModes
         /\ a.mode # Unset /\ a.price \in Amount /\ a.price # Unset
         /\ a.transfers \in BOOLEAN
         /\ [https |-> TRUE, host |-> a.domain] # Unset
BY AnswerAssumption, UnsetAssumption

\* The default price is nothing.
LEMMA NoPrice == grin_to_nanogrin(ZeroGrin) = 0
<1>1. ZeroGrin.whole = <<0>> /\ ZeroGrin.frac = <<>> /\ ZeroGrin.junk = FALSE
  BY DEF ZeroGrin
<1>2. Number(<<0>>) = 0
  <2>1. <<0>> = Append(<<>>, 0) /\ <<>> \in Seq(Digit) /\ 0 \in Digit
    BY DEF Digit
  <2>2. Number(Append(<<>>, 0)) = 10 * Number(<<>>) + 0
    BY <2>1, NumberAppend
  <2> QED
    BY <2>1, <2>2, NumberNone
<1>3. ~Malformed(ZeroGrin)
  <2>1. Len(<<>>) = 0 /\ <<0>> # <<>>
    OBVIOUS
  <2> QED
    BY <1>1, <2>1, AmountAssumption DEF Malformed
<1>4. Nanogrin \in Nat /\ TenTo(Decimals - 0) \in Nat /\ MaxU64 \in Nat
  BY AmountAssumption, TenToGrows DEF Nanogrin
<1>5. Number(<<0>>) * Nanogrin + Number(<<>>) * TenTo(Decimals - Len(<<>>)) = 0
  <2>1. Len(<<>>) = 0
    OBVIOUS
  <2> QED
    BY <1>2, <1>4, <2>1, NumberNone
<1> QED
  BY <1>1, <1>3, <1>4, <1>5 DEF grin_to_nanogrin

\* An environment that shows the answers a gives the configuration of a.
LEMMA ConfigShown ==
  ASSUME NEW x \in Procs, NEW env, NEW a \in AnswerSets, NEW f \in Paths,
         Shows(env, a, f)
  PROVE  /\ Config(x, env) = ConfigOf(a, TokenOf(x, env))
         /\ a.mode # "off" => env["TOKEN_FILE"] = secrets_dir_for(f)
         /\ a.mode = "off" => env["TOKEN_FILE"] \in {Unset, Credential}
         /\ env["TOKEN"] = Unset
<1> DEFINE r == render_env(a, f)
<1>1. /\ env["DOMAIN"] = a.domain
      /\ env["BASE_URL"] = [https |-> TRUE, host |-> a.domain]
      /\ env["PAY_MODE"] = a.mode
      /\ env["NAME_PRICE"] = IF a.mode = "name" THEN a.price ELSE Unset
      /\ env["WRITE_PRICE"] = IF a.mode = "write" THEN a.price ELSE Unset
      /\ env["URL"] = IF a.mode # "off" THEN "goblinpay" ELSE Unset
      /\ env["TOKEN"] = Unset
      /\ env["TRANSFERS"] = IF a.transfers THEN TRUE ELSE Unset
      /\ env["NODE_URL"] = IF a.transfers THEN "node" ELSE Unset
  <2>1. \A v \in Vars : v # "TOKEN_FILE" => env[v] = r[v]
    BY DEF Shows
  <2>2. /\ env["DOMAIN"] = r["DOMAIN"] /\ env["BASE_URL"] = r["BASE_URL"]
        /\ env["PAY_MODE"] = r["PAY_MODE"] /\ env["NAME_PRICE"] = r["NAME_PRICE"]
        /\ env["WRITE_PRICE"] = r["WRITE_PRICE"] /\ env["URL"] = r["URL"]
        /\ env["TOKEN"] = r["TOKEN"] /\ env["TRANSFERS"] = r["TRANSFERS"]
        /\ env["NODE_URL"] = r["NODE_URL"]
    <3> HIDE DEF r
    <3> QED
      BY <2>1 DEF Vars
  <2>3. /\ r["DOMAIN"] = a.domain
        /\ r["BASE_URL"] = [https |-> TRUE, host |-> a.domain]
        /\ r["PAY_MODE"] = a.mode
        /\ r["NAME_PRICE"] = IF a.mode = "name" THEN a.price ELSE Unset
        /\ r["WRITE_PRICE"] = IF a.mode = "write" THEN a.price ELSE Unset
        /\ r["URL"] = IF a.mode # "off" THEN "goblinpay" ELSE Unset
        /\ r["TOKEN"] = Unset
        /\ r["TRANSFERS"] = IF a.transfers THEN TRUE ELSE Unset
        /\ r["NODE_URL"] = IF a.transfers THEN "node" ELSE Unset
    BY RenderVars
  <2> HIDE DEF r
  <2> QED
    BY <2>2, <2>3
<1>2. /\ a.mode # "off" => env["TOKEN_FILE"] = secrets_dir_for(f)
      /\ a.mode = "off" => env["TOKEN_FILE"] \in {Unset, Credential}
  <2>1. \/ env["TOKEN_FILE"] = r["TOKEN_FILE"]
        \/ a.mode = "off" /\ env["TOKEN_FILE"] = Credential
    BY DEF Shows, Vars
  <2>2. r["TOKEN_FILE"] = IF a.mode # "off" THEN secrets_dir_for(f) ELSE Unset
    BY RenderVars
  <2> QED
    BY <2>1, <2>2
<1>3. /\ Get(env, "DOMAIN", Placeholder) = a.domain
      /\ Get(env, "BASE_URL", [https |-> TRUE, host |-> Placeholder])
           = [https |-> TRUE, host |-> a.domain]
      /\ Get(env, "PAY_MODE", "off") = a.mode
  BY <1>1, AnswersTyped DEF Get
<1>4. grin_to_nanogrin(Get(env, "NAME_PRICE", ZeroGrin))
        = IF a.mode = "name" THEN grin_to_nanogrin(a.price) ELSE 0
  BY <1>1, AnswersTyped, NoPrice DEF Get
<1>5. grin_to_nanogrin(Get(env, "WRITE_PRICE", ZeroGrin))
        = IF a.mode = "write" THEN grin_to_nanogrin(a.price) ELSE 0
  BY <1>1, AnswersTyped, NoPrice DEF Get
<1>6. /\ Get(env, "URL", Empty) = IF a.mode # "off" THEN "goblinpay" ELSE Empty
      /\ Get(env, "NODE_URL", Empty) = IF a.transfers THEN "node" ELSE Empty
  BY <1>1, UnsetAssumption DEF Get
<1>7. Get(env, "TRANSFERS", FALSE) = a.transfers
  BY <1>1, UnsetAssumption, AnswersTyped DEF Get
<1>8. Config(x, env) = ConfigOf(a, TokenOf(x, env))
  BY <1>3, <1>4, <1>5, <1>6, <1>7 DEF Config, ConfigOf
<1> QED
  BY <1>1, <1>2, <1>8

\* Without a credential the token is the one typed, if its file is whole.
LEMMA TokenShown ==
  ASSUME NEW x \in Procs, NEW env, NEW a \in AnswerSets, NEW f \in Paths,
         Shows(env, a, f),
         LET D == secrets_dir_for(f) IN
           a.mode # "off" => secret[D] # Unset /\ secret[D].token = a.token
  PROVE  LET may == MayUse(x, proc[x].l, secrets_dir_for(f)) IN
         /\ a.mode # "off" => TokenRead(x, env) = IF may THEN {"read", "failed"}
                                                        ELSE {"denied"}
         /\ a.mode = "off" => TokenRead(x, env) \in SUBSET {"read", "failed"}
         /\ a.mode # "off" => TokenOf(x, env) = a.token
         /\ env["TOKEN_FILE"] = Unset => /\ TokenOf(x, env) = Empty
                                         /\ TokenRead(x, env) = {"read"}
<1> DEFINE D == secrets_dir_for(f)
<1>1. D \in Places /\ D \notin {Unset, Empty, Credential}
  BY PlaceOf, UnsetAssumption
<1>2. /\ a.mode # "off" => env["TOKEN_FILE"] = D
      /\ a.mode = "off" => env["TOKEN_FILE"] \in {Unset, Credential}
      /\ env["TOKEN"] = Unset
  BY ConfigShown
<1>3. Unset # Credential /\ Empty # Credential /\ Credential \notin Places
  BY UnsetAssumption
<1> HIDE DEF D
<1>4. ASSUME a.mode # "off"
      PROVE  TokenRead(x, env) = IF MayUse(x, proc[x].l, D) THEN {"read", "failed"}
                                                            ELSE {"denied"}
  <2>1. env["TOKEN_FILE"] = D /\ secret[D] # Unset
    BY <1>2, <1>4 DEF D
  <2>2. CASE MayUse(x, proc[x].l, D)
    BY <1>1, <2>1, <2>2 DEF TokenRead
  <2>3. CASE ~MayUse(x, proc[x].l, D)
    BY <1>1, <2>1, <2>3 DEF TokenRead
  <2> QED
    BY <2>2, <2>3
<1>5. env["TOKEN_FILE"] = Unset => TokenRead(x, env) = {"read"}
  BY <1>3, UnsetAssumption DEF TokenRead
<1>6. env["TOKEN_FILE"] = Credential => TokenRead(x, env) = {"read", "failed"}
  BY <1>3 DEF TokenRead
<1>7. a.mode = "off" => TokenRead(x, env) \in SUBSET {"read", "failed"}
  BY <1>2, <1>5, <1>6
<1>8. a.mode # "off" => TokenOf(x, env) = a.token
  BY <1>1, <1>2 DEF TokenOf, D
<1>9. env["TOKEN_FILE"] = Unset => TokenOf(x, env) = Empty
  BY <1>2, UnsetAssumption DEF TokenOf, Get
<1> QED
  BY <1>4, <1>5, <1>7, <1>8, <1>9 DEF D

\* Answers that are in order make a configuration that is.
LEMMA WellAnsweredValid ==
  ASSUME NEW a \in AnswerSets, WellAnswered(a), NEW token,
         a.mode # "off" => token = a.token
  PROVE  Valid(ConfigOf(a, token))
<1> DEFINE c == ConfigOf(a, token)
<1>1. /\ c.domain = a.domain
      /\ c.base_url = [https |-> TRUE, host |-> a.domain]
      /\ c.pay_mode = a.mode
      /\ c.name_price = IF a.mode = "name" THEN grin_to_nanogrin(a.price) ELSE 0
      /\ c.write_price = IF a.mode = "write" THEN grin_to_nanogrin(a.price) ELSE 0
      /\ c.url = IF a.mode # "off" THEN "goblinpay" ELSE Empty
      /\ c.token = token /\ c.transfers = a.transfers
      /\ c.node_url = IF a.transfers THEN "node" ELSE Empty
  BY DEF ConfigOf
<1> HIDE DEF c
<1>2. a.domain = [name |-> a.domain.name, port |-> FALSE]
  BY AnswerAssumption DEF WellAnswered
<1>3. c.base_url.https /\ HostBare(c.base_url) = c.domain
  BY <1>1, <1>2 DEF HostBare
<1>4. Invalid # 0
  BY DEF Invalid
<1>5. c.pay_mode \in PayModes /\ c.domain # Empty
  BY <1>1, AnswersTyped
<1>6. c.name_price # Invalid /\ c.write_price # Invalid
  BY <1>1, <1>4 DEF WellAnswered
<1>7. /\ c.pay_mode # "off" => c.url # Empty /\ c.token # Empty
      /\ c.transfers => c.node_url # Empty
  BY <1>1, UnsetAssumption DEF WellAnswered
<1>8. /\ c.pay_mode = "name" => c.name_price # 0
      /\ c.pay_mode = "write" => c.write_price # 0
  BY <1>1 DEF WellAnswered
<1> QED
  BY <1>3, <1>5, <1>6, <1>7, <1>8 DEF Valid, c

\* And a configuration that is in order is what was typed.
LEMMA ValidFits ==
  ASSUME NEW a \in AnswerSets, NEW token, a.mode # "off" => token = a.token,
         Valid(ConfigOf(a, token))
  PROVE  Fits(ConfigOf(a, token), a)
<1> DEFINE c == ConfigOf(a, token)
<1>1. /\ c.domain = a.domain /\ c.pay_mode = a.mode
      /\ c.name_price = IF a.mode = "name" THEN grin_to_nanogrin(a.price) ELSE 0
      /\ c.write_price = IF a.mode = "write" THEN grin_to_nanogrin(a.price) ELSE 0
      /\ c.token = token /\ c.transfers = a.transfers
  BY DEF ConfigOf
<1>2. c.name_price # Invalid /\ c.write_price # Invalid
  BY DEF Valid
<1> HIDE DEF c
<1>3. ASSUME a.mode # "off"
      PROVE  Exact(Price(c), a.price) /\ Exact(Price(c), nanogrin_to_grin(Price(c)))
  <2> DEFINE nano == grin_to_nanogrin(a.price)
  <2>1. a.price \in Amount /\ a.mode \in {"name", "write"}
    BY <1>3, AnswersTyped DEF PayModes
  <2>2. Price(c) = nano /\ nano # Invalid
    BY <1>1, <1>2, <2>1 DEF Price
  <2>3. nano \in Nat /\ Exact(nano, a.price)
    BY <2>1, <2>2, ReadExactly, AmountAssumption
  <2> HIDE DEF nano
  <2>4. Exact(nano, nanogrin_to_grin(nano))
    BY <2>3, WrittenExactly
  <2> QED
    BY <2>2, <2>3, <2>4
<1> QED
  BY <1>1, <1>3 DEF Fits, c

-----------------------------------------------------------------------------
(* What the processes know of the env files. Only the operator's wizard      *)
(* writes them, so what it has loaded is what is there.                      *)

\* An empty FLOONET_DOMAIN in the environment would hide that of a file.
NoEmptyDomain == \A s \in Starts : s.env["DOMAIN"] # Empty

Files ==
  /\ \A f \in Paths :
       /\ file[f] \in {Unset, NoVars} \/ \E a \in AnswerSets : file[f] = render_env(a, f)
       /\ finished[f] \in AnswerSets \cup {Unset}
       /\ finished[f] # Unset /\ finished[f].mode # "off"
            => secret[secrets_dir_for(f)] # Unset
  /\ \A d \in Places : secret[d] # Unset =>
       \E a \in AnswerSets, private \in BOOLEAN :
         secret[d] = [token |-> a.token, private |-> private]
  /\ dropin \in BOOLEAN /\ launches \in 0 .. MaxLaunches

\* No finished file lies in the way of the one a user writes who is not root
\* and names none.
NotHidden(l) == l.root \/ l.envfile # Unset \/ finished["etc"] = Unset

SettledAs(l) == AllWhole /\ settled # Unset /\ settled.l = l

AskPC == {"load", "decide", "wiz_mode", "wiz_rest"}

\* p has loaded what a launch of it finds,
Found(p) ==
  /\ p.src = FirstExisting(p.l)
  /\ p.from = IF p.src = Unset THEN Unset ELSE finished[p.src]
  /\ p.bare => p.env = IF p.src = Unset THEN NoVars ELSE file[p.src]
  /\ NoEmptyDomain /\ p.src # Unset /\ file[p.src]["DOMAIN"] \notin {Unset, Empty}
       => config_present(p.env)

\* or nothing, as the file could not be read.
Current(p) ==
  \/ ~p.blind /\ Found(p)
  \/ p.blind /\ p.src = Unset /\ p.from = Unset /\ (p.bare => p.env = NoVars)

\* p asks, or writes, because it found no configuration.
Wizard(p) ==
  LET f == wizard_target(p.l)
      D == secrets_dir_for(f)
  IN
  /\ p.pc \notin AskPC => p.ans \in AnswerSets
  /\ p.pc = "wiz_token_mode" => secret[D] # Unset
  /\ p.pc \in {"wiz_truncate", "wiz_write"} /\ p.ans.mode # "off" => secret[D] # Unset
  /\ p.pc = "wiz_write" => settled = Unset
  /\ p.bare /\ p.l.command = "serve" => p.env = NoVars
  /\ p.bare /\ ~p.blind /\ p.l.command = "serve" => NotHidden(p.l)
  /\ p.bare /\ ~p.blind => ~SettledAs(p.l)
  /\ NoEmptyDomain /\ ~p.blind /\ p.l.command # "reconfigure"
       => ~AllWhole \/ finished[f] = Unset

\* p has asked, and finished its file.
SetUp(p) ==
  /\ p.ans \in AnswerSets /\ p.l.command = "serve"
  /\ finished[wizard_target(p.l)] = p.ans
  /\ p.bare /\ ~p.blind => NotHidden(p.l)

Operates(p) ==
  /\ p.pc \in StartPC => p.l \in Launches
  /\ p.pc \in AskPC => p.ans = Unset
  /\ p.pc = "load" => \E s \in Starts : p = Process(s.l, s.env, Unset, Unset)
  /\ p.pc = "decide" => Current(p)
  /\ p.pc \in WizardPC => Wizard(p)
  /\ p.pc = "reload" => SetUp(p) /\ settled = Unset /\ (p.bare => p.env = NoVars)
  /\ p.pc = "configure" /\ p.ans = Unset => Current(p)
  /\ p.pc = "configure" /\ p.ans # Unset =>
       /\ SetUp(p) /\ p.src = wizard_target(p.l) /\ p.from = p.ans
       /\ p.bare => p.env = file[p.src]
  /\ p.pc = "running" /\ p.bare /\ ~p.blind /\ SettledAs(p.l)
       => p.cfg = settled.cfg
  /\ p.pc = "misconfigured" /\ p.bare /\ ~p.blind /\ SettledAs(p.l)
       => p.fault = "failed"

\* The service reads /etc, which never goes away.
Serves(p) ==
  p.pc \in StartPC =>
    /\ p.pc \in {"load", "decide", "configure"} /\ p.l = ServiceLaunch
    /\ p.ans = Unset /\ p.src = "etc" /\ file["etc"] # Unset
    /\ p.from # Unset => p.from \in AnswerSets /\ Shows(p.env, p.from, "etc")

\* AnswersTakeEffect for the process p under name x.
Effect(x, p) ==
  p.pc \in {"running", "misconfigured"} /\ p.from # Unset /\ (p.bare \/ x = "systemd") =>
    IF p.pc = "running"
      THEN Fits(p.cfg, p.from)
      ELSE WellAnswered(p.from) => p.fault \in {"denied", "failed"}

\* What came up after its questions is what the answers in its file give, and
\* the launch gets at its token.
SettledSound ==
  settled # Unset =>
    LET l == settled.l
        a == finished[wizard_target(l)]
    IN /\ l \in Launches /\ l.command = "serve" /\ NotHidden(l)
       /\ a \in AnswerSets /\ settled.cfg = ConfigOf(a, TypedToken(a))
       /\ Valid(settled.cfg)
       /\ a.mode # "off" => LET D == secrets_dir_for(wizard_target(l)) IN
                            dir[D] # Unset /\ Owns(l, dir, D)

\* Who made a directory stays what it is.
RootsStay ==
  \A d \in Places : dir[d] # Unset => dir'[d] # Unset /\ dir'[d].root = dir[d].root

Right(x, p) ==
  /\ p.pc \in {"none"} \cup StartPC \cup EndPC
  /\ x = "operator" => Operates(p)
  /\ x = "systemd" => Serves(p)
  /\ Effect(x, p)

Loading == Files /\ SettledSound /\ \A x \in Procs : Right(x, proc[x])

-----------------------------------------------------------------------------
\* Of a process that has ended nothing is known.
LEMMA EndRight ==
  ASSUME NEW x, NEW p, p.pc \in {"none", "done", "failed"}
  PROVE  Right(x, p)
BY DEF Right, Operates, Serves, Effect, StartPC, WizardPC, EndPC, AskPC

\* What is known stays known as long as the files do.
LEMMA FilesStay ==
  ASSUME Loading, UNCHANGED <<file, secret, finished, settled>>, RootsStay
  PROVE  /\ \A p : Operates(p) => Operates(p)'
         /\ \A p : Serves(p) => Serves(p)'
         /\ SettledSound'
         /\ Files /\ dropin' \in BOOLEAN /\ launches' \in 0 .. MaxLaunches => Files'
         /\ AllWhole' = AllWhole
<1>1. \A l : FirstExisting(l)' = FirstExisting(l)
  BY DEF FirstExisting
<1>2. AllWhole' = AllWhole
  BY DEF AllWhole
<1>3. \A l : SettledAs(l) <=> SettledAs(l)'
  BY <1>2 DEF SettledAs
<1>4. \A l : NotHidden(l) <=> NotHidden(l)'
  BY DEF NotHidden
<1>5. \A p : Current(p) => Current(p)'
  BY <1>1 DEF Current, Found
<1>6. \A p : Wizard(p) => Wizard(p)'
  BY <1>2, <1>3, <1>4 DEF Wizard
<1>7. \A p : SetUp(p) => SetUp(p)'
  BY <1>4 DEF SetUp
<1>8. ASSUME NEW p, Operates(p) PROVE Operates(p)'
  <2>1. /\ p.pc = "running" /\ p.bare /\ ~p.blind /\ SettledAs(p.l)'
             => p.cfg = settled'.cfg
        /\ p.pc = "misconfigured" /\ p.bare /\ ~p.blind /\ SettledAs(p.l)'
             => p.fault = "failed"
    BY <1>3, <1>8 DEF Operates
  <2>2. /\ p.pc = "configure" /\ p.ans # Unset =>
             /\ SetUp(p)' /\ p.src = wizard_target(p.l) /\ p.from = p.ans
             /\ p.bare => p.env = file'[p.src]
        /\ p.pc = "configure" /\ p.ans = Unset => Current(p)'
        /\ p.pc = "decide" => Current(p)'
    BY <1>5, <1>7, <1>8 DEF Operates
  <2>3. /\ p.pc = "reload" => SetUp(p)' /\ settled' = Unset /\ (p.bare => p.env = NoVars)
        /\ p.pc \in WizardPC => Wizard(p)'
    BY <1>6, <1>7, <1>8 DEF Operates
  <2>4. /\ p.pc \in StartPC => p.l \in Launches
        /\ p.pc \in AskPC => p.ans = Unset
    BY <1>8 DEF Operates
  <2>5. p.pc = "load" => \E s \in Starts : p = Process(s.l, s.env, Unset, Unset)'
    <3>1. \A s : Process(s.l, s.env, Unset, Unset)' = Process(s.l, s.env, Unset, Unset)
      BY DEF Process
    <3> QED
      BY <1>8, <3>1 DEF Operates
  <2> QED
    BY <2>1, <2>2, <2>3, <2>4, <2>5 DEF Operates
<1>9. \A p : Serves(p) => Serves(p)'
  BY DEF Serves
<1>10. SettledSound'
  <2> SUFFICES ASSUME settled # Unset PROVE SettledSound'
    BY DEF SettledSound
  <2> DEFINE l == settled.l
             f == wizard_target(l)
             D == secrets_dir_for(f)
             a == finished[f]
  <2>1. /\ l \in Launches /\ l.command = "serve" /\ NotHidden(l)
        /\ a \in AnswerSets /\ settled.cfg = ConfigOf(a, TypedToken(a))
        /\ Valid(settled.cfg)
        /\ a.mode # "off" => dir[D] # Unset /\ Owns(l, dir, D)
    BY DEF Loading, SettledSound
  <2>2. D \in Places
    BY <2>1, TargetPlace DEF AnyLaunch
  <2> HIDE DEF D
  <2>3. a.mode # "off" => dir'[D] # Unset /\ Owns(l, dir', D)
    BY <2>1, <2>2 DEF RootsStay, Owns
  <2> QED
    BY <1>4, <2>1, <2>3 DEF SettledSound, D
<1>11. Files /\ dropin' \in BOOLEAN /\ launches' \in 0 .. MaxLaunches => Files'
  BY DEF Files
<1> QED
  BY <1>2, <1>8, <1>9, <1>10, <1>11

\* A step that leaves the env files and the tokens alone.
LEMMA QuietLoads ==
  ASSUME Loading, UNCHANGED <<file, secret, finished, settled>>, RootsStay,
         dropin' \in BOOLEAN, launches' \in 0 .. MaxLaunches,
         NEW x \in Procs, NEW q, Becomes(x, q), Right(x, q)
  PROVE  Loading'
<1>1. Files' /\ SettledSound'
  BY FilesStay DEF Loading
<1>2. \A y \in Procs : Right(y, proc'[y])
  BY DEF Loading, Becomes
<1>3. ASSUME NEW y, NEW p, Right(y, p) PROVE Right(y, p)'
  <2>1. /\ y = "operator" => Operates(p)'
        /\ y = "systemd" => Serves(p)'
    BY <1>3, FilesStay DEF Right
  <2>2. Effect(y, p)'
    BY <1>3 DEF Right, Effect
  <2> QED
    BY <1>3, <2>1, <2>2 DEF Right
<1>4. ASSUME NEW y \in Procs PROVE Right(y, proc[y])'
  <2>1. PICK p : p = proc'[y]
    OBVIOUS
  <2>2. Right(y, p)'
    BY <1>2, <1>3, <2>1
  <2> QED
    BY <2>1, <2>2
<1> QED
  BY <1>1, <1>4 DEF Loading

\* What the process x is up to, and that it is one of two.
LEMMA AtWork ==
  ASSUME Loading, NEW x \in Procs
  PROVE  /\ x = "operator" \/ x = "systemd"
         /\ x = "operator" => Operates(proc[x])
         /\ x = "systemd" => Serves(proc[x])
         /\ Files /\ SettledSound
BY DEF Loading, Right, Procs

\* Only the operator's process is in the wizard.
LEMMA InWizard ==
  ASSUME Loading, NEW x \in Procs, proc[x].pc \in WizardPC
  PROVE  /\ x = "operator" /\ Wizard(proc[x]) /\ proc[x].l \in Launches
         /\ proc[x].l \in AnyLaunch /\ wizard_target(proc[x].l) \in Paths
         /\ proc[x].pc \in AskPC => proc[x].ans = Unset
<1>1. proc[x].pc \in StartPC /\ proc[x].pc \notin {"load", "decide", "configure"}
  BY DEF StartPC, WizardPC
<1>2. x # "systemd"
  BY <1>1, AtWork DEF Serves
<1>3. x = "operator" /\ Wizard(proc[x]) /\ proc[x].l \in Launches
  BY <1>1, <1>2, AtWork DEF Operates
<1>4. proc[x].pc \in AskPC => proc[x].ans = Unset
  BY <1>2, AtWork DEF Operates
<1> QED
  BY <1>3, <1>4, TargetIsPath DEF AnyLaunch

\* A process that stays in the wizard.
LEMMA StillInWizard ==
  ASSUME NEW q, q.pc \in WizardPC, q.l \in Launches,
         q.pc \in AskPC => q.ans = Unset, Wizard(q)
  PROVE  Right("operator", q)
<1>1. q.pc \in StartPC
  BY DEF StartPC
<1>2. q.pc \notin {"load", "decide", "reload", "configure", "running", "misconfigured"}
  BY DEF WizardPC
<1> QED
  BY <1>1, <1>2 DEF Right, Operates, Effect

\* The service on its way to its configuration.
LEMMA StillService ==
  ASSUME NEW q, Serves(q), q.pc \in {"load", "decide", "configure"}
  PROVE  Right("systemd", q)
BY DEF Right, Effect, StartPC

\* The files of a finished setup.
LEMMA WholeFile ==
  ASSUME Inv, Files, NEW f \in Paths, finished[f] # Unset
  PROVE  /\ finished[f] \in AnswerSets
         /\ file[f] = render_env(finished[f], f) /\ file[f] # Unset
         /\ file[f]["DOMAIN"] \notin {Unset, Empty}
         /\ finished[f].mode # "off" =>
              LET D == secrets_dir_for(f) IN
              secret[D] # Unset /\ secret[D].token = finished[f].token
<1>1. finished[f] \in AnswerSets
  BY DEF Files
<1>2. file[f] = render_env(finished[f], f)
  BY DEF Inv, SetupWhole
<1>3. finished[f].mode # "off" =>
        LET D == secrets_dir_for(f) IN
        secret[D] # Unset /\ secret[D].token = finished[f].token
  BY DEF Inv, SetupWhole, Files
<1>4. render_env(finished[f], f)["DOMAIN"] = finished[f].domain
  BY RenderVars
<1>5. file[f] # Unset
  BY <1>1, <1>2, UnsetAssumption
<1> QED
  BY <1>1, <1>2, <1>3, <1>4, <1>5, AnswersTyped

\* Every env file sets some of the variables.
LEMMA FileTyped ==
  ASSUME Files, NEW f \in Paths, file[f] # Unset
  PROVE  file[f] = [v \in Vars |-> file[f][v]]
<1>1. NoVars = [v \in Vars |-> NoVars[v]]
  BY DEF NoVars
<1>2. file[f] = NoVars \/ \E a \in AnswerSets : file[f] = render_env(a, f)
  BY DEF Files
<1> QED
  BY <1>1, <1>2, RenderDomain

-----------------------------------------------------------------------------
(* Steps that change no file. *)

\* A step that changes no file, and moves one process.
LEMMA QuietStep ==
  ASSUME Loading, UNCHANGED <<disk, finished, settled>>,
         NEW x \in Procs, NEW q, Becomes(x, q), Right(x, q)
  PROVE  Loading'
<1>1. UNCHANGED <<file, secret, dir, finished, settled, dropin, launches>>
  BY DEF disk
<1>2. dropin' \in BOOLEAN /\ launches' \in 0 .. MaxLaunches /\ RootsStay
  BY <1>1 DEF Loading, Files, RootsStay
<1> QED
  BY <1>1, <1>2, QuietLoads

\* A process ends.
LEMMA EndStep ==
  ASSUME Inv, Loading, UNCHANGED <<disk, finished, settled>>,
         NEW x \in Procs, NEW pc \in {"done", "failed"}, Exit(x, pc)
  PROVE  Loading'
BY Exits, EndRight, QuietStep

\* The operator starts the binary.
LEMMA LaunchLoads ==
  ASSUME Inv, Loading, NEW s \in Starts, Launch(s.l, s.env)
  PROVE  Loading'
<1> DEFINE q == Process(s.l, s.env, Unset, Unset)
<1>1. q.pc = "load" /\ q.l = s.l /\ q.ans = Unset
  BY DEF Process
<1>2. proc' = [proc EXCEPT !["operator"] = q] /\ "operator" \in Procs
  BY DEF Launch, Procs
<1>3. \E t \in Starts : q = Process(t.l, t.env, Unset, Unset)
  OBVIOUS
<1> HIDE DEF q
<1>4. Becomes("operator", q)
  BY <1>2, StepBecomes
<1>5. Right("operator", q)
  BY <1>1, <1>3 DEF Right, Operates, Effect, StartPC, WizardPC, Launches
<1>6. /\ UNCHANGED <<file, secret, finished, settled>> /\ RootsStay
      /\ dropin' \in BOOLEAN /\ launches' \in 0 .. MaxLaunches
  BY BoundAssumption DEF Launch, Loading, Files, RootsStay
<1> QED
  BY <1>2, <1>4, <1>5, <1>6, QuietLoads

\* What the unit hands over shows what is in the file.
LEMMA StartServiceLoads ==
  ASSUME Inv, Loading, StartService
  PROVE  Loading'
<1> DEFINE credential == IF dropin THEN secret["etc"].token ELSE Unset
           q == Process(ServiceLaunch, UnitEnvironment, credential, "etc")
           a == finished["etc"]
<1>1. "etc" # Unset /\ "etc" \in Paths
  BY UnsetAssumption DEF Paths
<1>2. /\ q.pc = "load" /\ q.l = ServiceLaunch /\ q.ans = Unset /\ q.src = "etc"
      /\ q.from = a /\ q.env = UnitEnvironment
  BY <1>1 DEF Process
<1>3. ASSUME a # Unset PROVE Shows(UnitEnvironment, a, "etc")
  <2>1. file["etc"] = render_env(a, "etc")
    BY <1>1, <1>3, WholeFile DEF Loading
  <2>2. render_env(a, "etc")["TOKEN_FILE"] = IF a.mode # "off" THEN "etc" ELSE Unset
    BY RenderVars DEF secrets_dir_for
  <2> DEFINE r == render_env(a, "etc")
             given == IF dropin THEN Credential ELSE Unset
  <2> HIDE DEF r
  <2>3. UnitEnvironment = Layer(r, [NoVars EXCEPT !["TOKEN_FILE"] = given])
    BY <2>1 DEF UnitEnvironment, r
  <2>4. \A v \in Vars : UnitEnvironment[v] =
          IF r[v] # Unset THEN r[v] ELSE IF v = "TOKEN_FILE" THEN given ELSE Unset
    BY <2>3 DEF Layer, NoVars
  <2>5. r["TOKEN_FILE"] = Unset => a.mode = "off"
    BY <1>1, <2>2 DEF r
  <2>6. \A v \in Vars : \/ UnitEnvironment[v] = r[v]
                        \/ v = "TOKEN_FILE" /\ a.mode = "off"
                             /\ UnitEnvironment[v] = Credential
    BY <2>4, <2>5
  <2> QED
    BY <2>6 DEF Shows, r
<1>4. /\ proc' = [proc EXCEPT !["systemd"] = q] /\ "systemd" \in Procs
      /\ file["etc"] # Unset /\ UNCHANGED <<disk, finished, settled>>
  BY DEF StartService, Procs
<1>5. a # Unset => a \in AnswerSets
  BY <1>1 DEF Loading, Files
<1> HIDE DEF q
<1>6. Serves(q)
  BY <1>2, <1>3, <1>4, <1>5 DEF Serves
<1>7. Right("systemd", q)
  BY <1>2, <1>6, StillService
<1>8. Becomes("systemd", q)
  BY <1>4, StepBecomes
<1> QED
  BY <1>4, <1>7, <1>8, QuietStep

\* The drop-in changes what the next start of the service is handed.
LEMMA InstallDropinLoads ==
  ASSUME Loading, InstallDropin
  PROVE  Loading'
<1> DEFINE p == proc["systemd"]
<1>1. Right("systemd", p) /\ Becomes("systemd", p) /\ "systemd" \in Procs
  BY DEF Loading, InstallDropin, Becomes, Procs
<1>2. /\ UNCHANGED <<file, secret, finished, settled>> /\ RootsStay
      /\ dropin' \in BOOLEAN /\ launches' \in 0 .. MaxLaunches
  BY DEF InstallDropin, Loading, Files, RootsStay
<1> QED
  BY <1>1, <1>2, QuietLoads

\* The service finds the file its unit has read already.
LEMMA ServiceLoads ==
  ASSUME Inv, Loading, LoadFirstExisting("systemd")
  PROVE  Loading'
<1> DEFINE p == proc["systemd"]
           f == FirstExisting(p.l)
<1>1. "systemd" \in Procs /\ p.pc = "load" /\ UNCHANGED <<disk, finished, settled>>
  BY DEF LoadFirstExisting, Procs
<1>2. /\ p.l = ServiceLaunch /\ p.ans = Unset /\ p.src = "etc" /\ file["etc"] # Unset
      /\ p.from # Unset => p.from \in AnswerSets /\ Shows(p.env, p.from, "etc")
  BY <1>1, AtWork DEF Serves, StartPC
<1>3. f = "etc" /\ "etc" \in Paths /\ "etc" # Unset
  BY <1>2, TargetIsLookedAt, UnsetAssumption DEF AnyLaunch, ServiceLaunch, Paths
<1>4. PICK q : /\ Becomes("systemd", q) /\ q.pc = "decide" /\ q.l = p.l
               /\ q.ans = p.ans
               /\ \/ Holds(q, p)
                  \/ /\ q.env = Layer(p.env, file["etc"])
                     /\ q.src = p.src /\ q.from = Source(p)
  BY <1>1, <1>2, <1>3, Loads
<1>5. ASSUME q.from # Unset, ~Holds(q, p)
      PROVE  q.from \in AnswerSets /\ Shows(q.env, q.from, "etc")
  <2>1. q.from = p.from /\ finished["etc"] = p.from
    BY <1>2, <1>4, <1>5 DEF Source
  <2>2. file["etc"] = render_env(p.from, "etc")
    BY <1>3, <1>5, <2>1, WholeFile, AtWork, <1>1
  <2>3. \A v \in Vars : q.env[v] = IF p.env[v] # Unset THEN p.env[v]
                                   ELSE render_env(p.from, "etc")[v]
    BY <1>4, <1>5, <2>2 DEF Layer
  <2>4. p.from \in AnswerSets /\ Shows(p.env, p.from, "etc")
    BY <1>2, <1>5, <2>1
  <2> QED
    BY <2>1, <2>3, <2>4 DEF Shows
<1>6. Serves(q)
  BY <1>2, <1>4, <1>5 DEF Serves, Holds
<1>7. Right("systemd", q)
  BY <1>4, <1>6, StillService
<1> QED
  BY <1>1, <1>4, <1>7, QuietStep

\* The operator's launch loads the first file there is.
LEMMA OperatorLoads ==
  ASSUME Inv, Loading, LoadFirstExisting("operator")
  PROVE  Loading'
<1> DEFINE p == proc["operator"]
           f == FirstExisting(p.l)
<1>1. /\ "operator" \in Procs /\ p.pc = "load" /\ p.pc \in StartPC
      /\ UNCHANGED <<disk, finished, settled>>
  BY DEF LoadFirstExisting, Procs, StartPC
<1>2. PICK s \in Starts : p = Process(s.l, s.env, Unset, Unset)
  BY <1>1, AtWork DEF Operates
<1>3. /\ p.l = s.l /\ p.env = s.env /\ p.src = Unset /\ p.from = Unset
      /\ p.ans = Unset /\ p.bare = (s.env = NoVars) /\ p.blind = FALSE
  BY <1>2 DEF Process
<1>4. p.l \in Launches /\ p.l \in AnyLaunch
  BY <1>3 DEF Launches, AnyLaunch
<1>5. f # Unset => f \in Paths /\ file[f] # Unset
  BY <1>4, TargetIsLookedAt
<1>6. PICK q : /\ Becomes("operator", q) /\ q.pc = "decide" /\ q.l = p.l
               /\ q.bare = p.bare /\ q.ans = p.ans
               /\ \/ q.blind /\ Holds(q, p)
                  \/ /\ q.blind = p.blind
                     /\ f = Unset => Kept(q, p)
                     /\ f # Unset => q.env = Layer(p.env, file[f])
                     /\ f # Unset => q.src = f /\ q.from = finished[f]
  BY <1>1, <1>3, Loads
<1>7. q.blind /\ Holds(q, p) => Current(q)
  BY <1>3 DEF Current, Holds
<1>8. ASSUME ~(q.blind /\ Holds(q, p)) PROVE Current(q)
  <2>1. ~q.blind
    BY <1>3, <1>6, <1>8
  <2>2. q.src = f /\ q.from = IF f = Unset THEN Unset ELSE finished[f]
    BY <1>3, <1>6, <1>8 DEF Kept, Holds
  <2>3. q.bare => q.env = IF f = Unset THEN NoVars ELSE file[f]
    <3>1. CASE f = Unset
      BY <1>3, <1>6, <1>8, <3>1 DEF Kept, Holds
    <3>2. ASSUME f # Unset, q.bare PROVE q.env = file[f]
      <4>1. p.env = NoVars /\ q.env = Layer(p.env, file[f])
        BY <1>3, <1>6, <1>8, <3>2
      <4>2. file[f] = [v \in Vars |-> file[f][v]]
        BY <1>1, <1>5, <3>2, FileTyped, AtWork
      <4> HIDE DEF f, p
      <4>3. Layer(NoVars, file[f]) = file[f]
        BY <4>2, LayerBare
      <4> QED
        BY <4>1, <4>3
    <3> QED
      BY <3>1, <3>2
  <2>4. ASSUME NoEmptyDomain, f # Unset, file[f]["DOMAIN"] \notin {Unset, Empty}
        PROVE  config_present(q.env)
    <3>1. q.env["DOMAIN"] = IF s.env["DOMAIN"] # Unset THEN s.env["DOMAIN"]
                            ELSE file[f]["DOMAIN"]
      BY <1>3, <1>6, <1>8, <2>4 DEF Layer, Vars
    <3> QED
      BY <2>4, <3>1 DEF config_present, NoEmptyDomain
  <2> HIDE DEF p
  <2>5. FirstExisting(q.l) = f
    BY <1>6
  <2> HIDE DEF f
  <2>6. Found(q)
    BY <2>2, <2>3, <2>4, <2>5 DEF Found
  <2> QED
    BY <2>1, <2>6 DEF Current
<1>9. q.l \in Launches /\ q.ans = Unset
  BY <1>3, <1>4, <1>6
<1> HIDE DEF p, f
<1>10. Right("operator", q)
  BY <1>6, <1>7, <1>8, <1>9 DEF Right, Operates, Effect, StartPC, WizardPC
<1> QED
  BY <1>1, <1>6, <1>10, QuietStep

-----------------------------------------------------------------------------
(* Why a launch asks *)

\* A launch that did not find its configuration has no finished file it looks
\* at.
LEMMA NothingFound ==
  ASSUME Inv, Loading, NEW p, p.l \in Launches, Found(p), ~config_present(p.env)
  PROVE  /\ p.bare => p.env = NoVars /\ NotHidden(p.l)
         /\ p.bare => ~SettledAs(p.l)
         /\ NoEmptyDomain => ~AllWhole \/ finished[wizard_target(p.l)] = Unset
<1> DEFINE f == FirstExisting(p.l)
           t == wizard_target(p.l)
<1>1. /\ p.l \in AnyLaunch /\ t \in Paths
      /\ f # Unset => f \in Paths /\ file[f] # Unset
      /\ file[t] # Unset => f # Unset
      /\ ~p.l.root /\ p.l.envfile = Unset /\ file["etc"] # Unset => f = "etc"
      /\ p.src = f /\ Files /\ SettledSound /\ "etc" \in Paths
      /\ p.bare => p.env = IF f = Unset THEN NoVars ELSE file[f]
  BY TargetIsPath, TargetIsLookedAt DEF AnyLaunch, Found, Loading, Paths
<1>2. ASSUME p.bare, f # Unset, finished[f] # Unset PROVE FALSE
  BY <1>1, <1>2, WholeFile DEF config_present
<1>3. ASSUME p.bare PROVE p.env = NoVars
  <2>1. CASE f = Unset
    BY <1>1, <1>3, <2>1
  <2>2. CASE f # Unset
    <3>1. file[f] = NoVars \/ \E a \in AnswerSets : file[f] = render_env(a, f)
      BY <1>1, <2>2 DEF Files
    <3>2. ASSUME NEW a \in AnswerSets, file[f] = render_env(a, f) PROVE FALSE
      <4>1. p.env = render_env(a, f)
        BY <1>1, <1>3, <2>2, <3>2
      <4>2. render_env(a, f)["DOMAIN"] = a.domain
        BY RenderVars
      <4> QED
        BY <4>1, <4>2, AnswersTyped DEF config_present
    <3> QED
      BY <1>1, <1>3, <2>2, <3>1, <3>2
  <2> QED
    BY <2>1, <2>2
<1>4. ASSUME p.bare PROVE NotHidden(p.l)
  <2> SUFFICES ASSUME ~p.l.root, p.l.envfile = Unset, finished["etc"] # Unset PROVE FALSE
    BY DEF NotHidden
  <2>1. file["etc"] # Unset
    BY <1>1, WholeFile
  <2>2. f = "etc" /\ f # Unset
    BY <1>1, <2>1, UnsetAssumption
  <2> QED
    BY <1>2, <1>4, <2>2
<1>5. ASSUME AllWhole, finished[t] # Unset PROVE f # Unset /\ finished[f] # Unset
  <2>1. file[t] # Unset
    BY <1>1, <1>5, WholeFile
  <2> QED
    BY <1>1, <1>5, <2>1 DEF AllWhole
<1>6. ASSUME p.bare PROVE ~SettledAs(p.l)
  <2> SUFFICES ASSUME SettledAs(p.l) PROVE FALSE
    OBVIOUS
  <2>1. AllWhole /\ finished[t] \in AnswerSets
    BY <1>1 DEF SettledAs, SettledSound
  <2>2. finished[t] # Unset
    BY <2>1, UnsetAssumption
  <2> QED
    BY <1>2, <1>5, <1>6, <2>1, <2>2
<1>7. ASSUME NoEmptyDomain, AllWhole, finished[t] # Unset PROVE FALSE
  <2>1. f \in Paths /\ f # Unset /\ finished[f] # Unset
    BY <1>1, <1>5, <1>7
  <2>2. file[f]["DOMAIN"] \notin {Unset, Empty}
    BY <1>1, <2>1, WholeFile
  <2>3. config_present(p.env)
    BY <1>1, <1>7, <2>1, <2>2 DEF Found
  <2> QED
    BY <2>3
<1> QED
  BY <1>3, <1>4, <1>6, <1>7

\* A launch asks for a reason, or is told to.
LEMMA DecideLoads ==
  ASSUME Inv, Loading, NEW x \in Procs, Decide(x)
  PROVE  Loading'
<1> DEFINE p == proc[x]
           present == config_present(p.env)
<1>1. /\ p.pc = "decide" /\ p.pc \in StartPC /\ UNCHANGED <<disk, finished, settled>>
  BY DEF Decide, StartPC
<1>2. PICK q : Becomes(x, q) /\
              \/ /\ q.pc = "configure" /\ Kept(q, p)
                 /\ p.l.command = "serve" /\ (present \/ ~p.l.tty)
              \/ q.pc \in {"done", "failed"}
              \/ /\ q.pc = "wiz_mode" /\ q.src = Unset /\ q.from = Unset
                 /\ q.l = p.l /\ q.bare = p.bare /\ q.credential = p.credential
                 /\ q.env = p.env /\ q.ans = p.ans /\ q.blind = p.blind
                 /\ p.l.command \in {"serve", "setup"} => ~present
                 /\ ~(p.l.command = "serve" /\ ~p.l.tty)
  BY Decides
<1>3. CASE q.pc \in {"done", "failed"}
  BY <1>1, <1>2, <1>3, EndRight, QuietStep
<1>4. CASE x = "systemd" /\ q.pc \notin {"done", "failed"}
  <2>1. /\ p.l = ServiceLaunch /\ p.ans = Unset /\ p.src = "etc" /\ file["etc"] # Unset
        /\ p.from # Unset => p.from \in AnswerSets /\ Shows(p.env, p.from, "etc")
    BY <1>1, <1>4, AtWork DEF Serves
  <2>2. q.pc = "configure" /\ Kept(q, p)
    BY <1>2, <1>4, <2>1 DEF ServiceLaunch
  <2>3. Serves(q)
    BY <2>1, <2>2 DEF Serves, Kept, Holds
  <2>4. Right(x, q)
    BY <1>4, <2>2, <2>3, StillService
  <2> QED
    BY <1>1, <1>2, <2>4, QuietStep
<1>5. CASE x = "operator" /\ q.pc \notin {"done", "failed"}
  <2>1. p.l \in Launches /\ p.ans = Unset /\ Current(p)
    BY <1>1, <1>5, AtWork DEF Operates, AskPC
  <2>2. CASE q.pc = "configure"
    <3>1. Kept(q, p)
      BY <1>2, <2>2
    <3>2. Current(q) /\ q.ans = Unset /\ q.l \in Launches
      BY <2>1, <3>1 DEF Current, Found, Kept, Holds
    <3>3. Right(x, q)
      BY <1>5, <2>2, <3>2 DEF Right, Operates, Effect, StartPC, WizardPC, AskPC
    <3> QED
      BY <1>1, <1>2, <3>3, QuietStep
  <2>3. CASE q.pc = "wiz_mode"
    <3>1. /\ q.l = p.l /\ q.bare = p.bare /\ q.env = p.env /\ q.ans = p.ans
          /\ q.blind = p.blind
          /\ p.l.command \in {"serve", "setup"} => ~present
      BY <1>2, <2>3
    <3>2. ~present =>
            /\ p.bare => p.env = NoVars
            /\ p.bare /\ ~p.blind => NotHidden(p.l) /\ ~SettledAs(p.l)
            /\ NoEmptyDomain /\ ~p.blind
                 => ~AllWhole \/ finished[wizard_target(p.l)] = Unset
      BY <2>1, NothingFound DEF Current
    <3>3. p.l.command \in {"serve", "setup", "reconfigure"}
      BY <2>1, LaunchAssumption
    <3>4. ASSUME p.l.command = "reconfigure" PROVE ~SettledAs(p.l)
      BY <3>4, AtWork DEF SettledAs, SettledSound
    <3> HIDE DEF p, present
    <3>5. Wizard(q)
      BY <2>3, <3>1, <3>2, <3>3, <3>4 DEF Wizard, AskPC
    <3>6. Right(x, q)
      BY <1>5, <2>1, <2>3, <3>1, <3>5, StillInWizard DEF WizardPC
    <3> QED
      BY <1>1, <1>2, <3>6, QuietStep
  <2> QED
    BY <1>2, <1>5, <2>2, <2>3
<1> QED
  BY <1>3, <1>4, <1>5, AtWork

\* The operator's process goes on as q, in a step that touches files.
LEMMA OperatorStep ==
  ASSUME Loading, NEW q, Becomes("operator", q), Right("operator", q)',
         Files', SettledSound', file["etc"] # Unset => file'["etc"] # Unset
  PROVE  Loading'
<1>1. proc'["operator"] = q /\ proc'["systemd"] = proc["systemd"]
  BY DEF Becomes, Procs
<1>2. Right("operator", proc["operator"])'
  BY <1>1
<1>3. ASSUME NEW p, Right("systemd", p) PROVE Right("systemd", p)'
  <2>1. Serves(p)'
    BY <1>3 DEF Right, Serves
  <2>2. Effect("systemd", p)'
    BY <1>3 DEF Right, Effect
  <2> QED
    BY <1>3, <2>1, <2>2 DEF Right
<1>4. PICK p : p = proc["systemd"]
  OBVIOUS
<1>5. Right("systemd", p)'
  BY <1>3, <1>4 DEF Loading, Procs
<1>6. Right("systemd", proc["systemd"])'
  BY <1>1, <1>4, <1>5
<1> QED
  BY <1>2, <1>6 DEF Loading, Procs

\* A process that stays in the wizard while files change.
LEMMA NextInWizard ==
  ASSUME NEW q, q.pc \in WizardPC \ AskPC, q.l \in Launches, Wizard(q)'
  PROVE  Right("operator", q)'
<1>1. q.pc \in StartPC
  BY DEF StartPC
<1>2. q.pc \notin {"load", "decide", "reload", "configure", "running", "misconfigured"}
  BY DEF WizardPC
<1>3. Operates(q)'
  BY <1>1, <1>2 DEF Operates
<1>4. Effect("operator", q)'
  BY <1>2 DEF Effect
<1> QED
  BY <1>1, <1>3, <1>4 DEF Right

-----------------------------------------------------------------------------
(* The questions, and the directory of the token *)

\* The questions give answers of AnswerSets.
LEMMA AskModeLoads ==
  ASSUME Inv, Loading, NEW x \in Procs, AskMode(x)
  PROVE  Loading'
<1> DEFINE p == proc[x]
<1>1. p.pc = "wiz_mode" /\ p.pc \in WizardPC /\ UNCHANGED <<disk, finished, settled>>
  BY DEF AskMode, WizardPC
<1>2. PICK q : /\ Becomes(x, q) /\ q.pc \in {"wiz_mode", "wiz_rest"}
               /\ Kept(q, p)
  BY AsksMode
<1>3. /\ x = "operator" /\ Wizard(p) /\ p.l \in Launches /\ p.ans = Unset
  BY <1>1, InWizard DEF AskPC
<1> HIDE DEF p
<1>4. Wizard(q)
  BY <1>2, <1>3 DEF Wizard, Kept, Holds, AskPC
<1>5. Right(x, q)
  BY <1>2, <1>3, <1>4, StillInWizard DEF Kept, Holds, WizardPC
<1> QED
  BY <1>1, <1>2, <1>5, QuietStep

LEMMA AskRestLoads ==
  ASSUME Inv, Loading, NEW x \in Procs, AskRest(x)
  PROVE  Loading'
<1> DEFINE p == proc[x]
<1>1. p.pc = "wiz_rest" /\ p.pc \in WizardPC /\ UNCHANGED <<disk, finished, settled>>
  BY DEF AskRest, WizardPC
<1>2. PICK q : /\ Becomes(x, q) /\ q.pc \in {"wiz_truncate", "wiz_dir"}
               /\ q.l = p.l /\ q.bare = p.bare /\ q.env = p.env
               /\ q.blind = p.blind /\ q.ans \in AnswerSets
               /\ q.pc = "wiz_truncate" => q.ans.mode = "off"
  BY AsksRest
<1>3. /\ x = "operator" /\ Wizard(p) /\ p.l \in Launches
  BY <1>1, InWizard
<1> HIDE DEF p
<1>4. Wizard(q)
  BY <1>2, <1>3 DEF Wizard
<1>5. Right(x, q)
  BY <1>2, <1>3, <1>4, StillInWizard DEF WizardPC, AskPC
<1> QED
  BY <1>1, <1>2, <1>5, QuietStep

\* A directory that is there keeps its owner.
LEMMA DirChanges ==
  ASSUME Inv, NEW x \in Procs, MakeSecretsDir(x) \/ ProtectSecretsDir(x)
  PROVE  RootsStay
<1> DEFINE D == SecretsDir(x)
<1>1. proc[x].pc \in StartPC
  BY DEF MakeSecretsDir, ProtectSecretsDir, WizardPC, StartPC
<1>2. D \in Places /\ dir \in [Places -> DirRecord \cup {Unset}]
  BY <1>1, StartKnows DEF SecretsDir, Inv, DiskTyped
<1>3. CASE MakeSecretsDir(x)
  <2>1. \A d \in Places : dir[d] # Unset => dir'[d] = dir[d]
    BY <1>2, <1>3 DEF MakeSecretsDir
  <2> QED
    BY <2>1 DEF RootsStay
<1>4. CASE ProtectSecretsDir(x)
  <2>1. dir[D] # Unset
    BY <1>1, <1>4, StartKnows DEF ProtectSecretsDir, Knows, SecretsDir
  <2>2. dir' = dir \/ dir' = [dir EXCEPT ![D].private = TRUE]
    BY <1>4 DEF ProtectSecretsDir
  <2>3. \A r \in DirRecord : LET m == [r EXCEPT !.private = TRUE] IN
                             m \in DirRecord /\ m.root = r.root
    BY DEF DirRecord
  <2>4. Unset \notin DirRecord
    BY UnsetAssumption DEF DirRecord
  <2>5. \A d \in Places : \/ dir'[d] = dir[d]
                          \/ d = D /\ dir'[d] = [dir[d] EXCEPT !.private = TRUE]
    BY <1>2, <2>2
  <2> QED
    <3> SUFFICES ASSUME NEW d \in Places, dir[d] # Unset
                 PROVE  dir'[d] # Unset /\ dir'[d].root = dir[d].root
      BY DEF RootsStay
    <3>1. dir[d] \in DirRecord
      BY <1>2
    <3> HIDE DEF D
    <3> QED
      BY <2>3, <2>4, <2>5, <3>1
<1> QED
  BY <1>3, <1>4

\* The directory says nothing of what is loaded.
LEMMA DirStepLoads ==
  ASSUME Inv, Loading, NEW x \in Procs, MakeSecretsDir(x) \/ ProtectSecretsDir(x)
  PROVE  Loading'
<1> DEFINE p == proc[x]
<1>1. /\ p.pc \in {"wiz_dir", "wiz_dir_mode"} /\ p.pc \in WizardPC /\ p.pc \in StartPC
      /\ \E pc \in {"wiz_dir_mode", "wiz_remove"} : Goto(x, pc)
      /\ UNCHANGED <<file, secret, dropin, launches, finished, settled>>
  BY DEF MakeSecretsDir, ProtectSecretsDir, WizardPC, StartPC
<1>2. PICK q : /\ Becomes(x, q) /\ q.pc \in {"wiz_dir_mode", "wiz_remove"}
               /\ Kept(q, p)
  BY <1>1, GoesTo
<1>3. x = "operator" /\ Wizard(p) /\ p.l \in Launches
  BY <1>1, InWizard
<1>4. p.pc \notin AskPC /\ q.pc \notin AskPC
  BY <1>1, <1>2 DEF AskPC
<1> HIDE DEF p
<1>5. Wizard(q)
  BY <1>2, <1>3, <1>4 DEF Wizard, Kept, Holds
<1>6. Right(x, q)
  BY <1>2, <1>3, <1>4, <1>5, StillInWizard DEF Kept, Holds, WizardPC
<1>7. dropin' \in BOOLEAN /\ launches' \in 0 .. MaxLaunches
  BY <1>1 DEF Loading, Files
<1>8. RootsStay
  BY DirChanges
<1> QED
  BY <1>1, <1>2, <1>6, <1>7, <1>8, QuietLoads

\* The wizard's launch loads what it has just written.
LEMMA ReloadLoads ==
  ASSUME Inv, Loading, NEW x \in Procs, Reload(x)
  PROVE  Loading'
<1> DEFINE p == proc[x]
           f == wizard_target(p.l)
<1>1. p.pc = "reload" /\ p.pc \in StartPC /\ UNCHANGED <<disk, finished, settled>>
  BY DEF Reload, StartPC
<1>2. x = "operator"
  BY <1>1, AtWork DEF Serves
<1>3. /\ p.l \in Launches /\ p.l \in AnyLaunch /\ f \in Paths /\ SetUp(p)
      /\ p.bare => p.env = NoVars
  BY <1>1, <1>2, AtWork, TargetIsPath DEF Operates, AnyLaunch
<1>4. PICK q : /\ Becomes(x, q) /\ q.pc = "configure" /\ q.l = p.l
               /\ q.bare = p.bare /\ q.ans = p.ans /\ q.blind = p.blind
               /\ q.env = Layer(p.env, file[f])
               /\ q.src = f /\ q.from = finished[f]
  BY Reloads
<1>5. p.ans \in AnswerSets /\ finished[f] = p.ans /\ p.ans # Unset
  BY <1>3, UnsetAssumption DEF SetUp
<1>6. q.bare => q.env = file[f]
  <2> SUFFICES ASSUME q.bare PROVE q.env = file[f]
    OBVIOUS
  <2>1. file[f] = [v \in Vars |-> file[f][v]]
    BY <1>3, <1>5, WholeFile, FileTyped, AtWork
  <2>2. q.env = Layer(NoVars, file[f])
    BY <1>3, <1>4
  <2> HIDE DEF f, p
  <2>3. Layer(NoVars, file[f]) = file[f]
    BY <2>1, LayerBare
  <2> QED
    BY <2>2, <2>3
<1>7. SetUp(q) /\ q.ans # Unset /\ q.src = wizard_target(q.l) /\ q.from = q.ans
  BY <1>3, <1>4, <1>5 DEF SetUp
<1>8. q.l \in Launches /\ (q.bare => q.env = file[q.src])
  BY <1>3, <1>4, <1>6
<1> HIDE DEF p, f
<1>9. Operates(q)
  BY <1>4, <1>7, <1>8 DEF Operates, WizardPC, AskPC
<1>10. Right("operator", q)
  BY <1>4, <1>9 DEF Right, Effect, StartPC
<1> QED
  BY <1>1, <1>2, <1>4, <1>10, QuietStep

\* A failure leaves the files as they are,
LEMMA FailLoads ==
  ASSUME Inv, Loading, NEW x \in Procs, Fail(x)
  PROVE  Loading'
BY EndStep DEF Fail

\* and so does a crash.
LEMMA CrashLoads ==
  ASSUME Inv, Loading, NEW x \in Procs, Crash(x)
  PROVE  Loading'
<1>1. PICK q : q.pc = "none" /\ proc' = [proc EXCEPT ![x] = q]
  BY DEF NoProc, Crash
<1>2. Becomes(x, q)
  BY <1>1, StepBecomes
<1>3. Right(x, q)
  BY <1>1, EndRight
<1> QED
  BY <1>2, <1>3, QuietStep DEF Crash

-----------------------------------------------------------------------------
(* The files *)

\* The wizard makes a change: nothing is finished at its file, or settled.
LEMMA WizardTouches ==
  ASSUME Inv, Loading, NEW x \in Procs, proc[x].pc \in WizardPC \ AskPC,
         NEW q, Kept(q, proc[x]), q.pc \in WizardPC \ AskPC,
         LET f == wizard_target(proc[x].l)
             D == secrets_dir_for(f)
         IN
           /\ settled' = Unset /\ finished'[f] = Unset
           /\ \A g \in Paths : finished'[g] \in {Unset, finished[g]}
           /\ q.pc \in {"wiz_token_mode", "wiz_truncate", "wiz_write"}
                 /\ q.ans.mode # "off" => secret'[D] # Unset
           /\ q.pc = "wiz_token_mode" => secret'[D] # Unset
  PROVE  Right("operator", q)'
<1> DEFINE p == proc[x]
           f == wizard_target(p.l)
           D == secrets_dir_for(f)
<1>1. /\ x = "operator" /\ Wizard(p) /\ p.l \in Launches /\ f \in Paths
      /\ p.ans \in AnswerSets
  BY InWizard DEF Wizard
<1>2. settled' = Unset /\ finished'[f] = Unset
  OBVIOUS
<1>3. ASSUME NEW l, NotHidden(l) PROVE NotHidden(l)'
  BY <1>3 DEF NotHidden, Paths
<1>4. ASSUME NEW l PROVE ~SettledAs(l)'
  BY <1>2 DEF SettledAs
<1>5. /\ q.l = p.l /\ q.bare = p.bare /\ q.env = p.env /\ q.ans = p.ans
      /\ q.blind = p.blind
  BY DEF Kept, Holds
<1>6. /\ q.pc = "wiz_token_mode" => secret'[D] # Unset
      /\ q.pc \in {"wiz_truncate", "wiz_write"} /\ q.ans.mode # "off" => secret'[D] # Unset
  OBVIOUS
<1>7. /\ q.bare /\ q.l.command = "serve" => q.env = NoVars
      /\ q.bare /\ ~q.blind /\ q.l.command = "serve" => NotHidden(q.l)'
  BY <1>1, <1>3, <1>5 DEF Wizard
<1>8. ~SettledAs(q.l)' /\ q.ans \in AnswerSets /\ wizard_target(q.l) = f
  BY <1>1, <1>4, <1>5
<1> HIDE DEF p, f
<1>9. Wizard(q)'
  BY <1>2, <1>6, <1>7, <1>8 DEF Wizard
<1> QED
  BY <1>1, <1>5, <1>9, NextInWizard

\* A token that lies there is one that was typed.
LEMMA SecretTyped ==
  ASSUME Files, NEW d \in Places, secret[d] # Unset
  PROVE  \E a \in AnswerSets, private \in BOOLEAN :
           secret[d] = [token |-> a.token, private |-> private]
BY DEF Files

\* A step that changes the token in D, of nobody's answers.
LEMMA SecretStep ==
  ASSUME Inv, Loading, NEW f \in Paths, NEW D \in Places, NEW t,
         secret' = [secret EXCEPT ![D] = t],
         t = Unset \/ \E a \in AnswerSets, private \in BOOLEAN :
                        t = [token |-> a.token, private |-> private],
         TokenTouched(f, D), UNCHANGED <<file, dropin, launches>>
  PROVE  /\ Files' /\ SettledSound'
         /\ settled' = Unset /\ finished'[f] = Unset
         /\ \A g \in Paths : finished'[g] \in {Unset, finished[g]}
<1>1. /\ \A d \in Places : secret'[d] = IF d = D THEN t ELSE secret[d]
      /\ \A g \in Paths :
           finished'[g] = IF g = f \/ NamesToken(g, D) THEN Unset ELSE finished[g]
      /\ \A g \in Paths : finished'[g] # Unset =>
           /\ finished'[g] = finished[g]
           /\ finished[g].mode # "off" => secrets_dir_for(g) # D
      /\ settled' = Unset
  BY TouchedToken DEF Inv, DiskTyped, TokenTouched
<1>2. ASSUME NEW g \in Paths
      PROVE  /\ finished'[g] \in AnswerSets \cup {Unset}
             /\ finished'[g] # Unset /\ finished'[g].mode # "off"
                  => secret'[secrets_dir_for(g)] # Unset
  <2>1. finished'[g] \in AnswerSets \cup {Unset}
    BY <1>1 DEF Loading, Files
  <2>2. ASSUME finished'[g] # Unset, finished'[g].mode # "off"
        PROVE  secret'[secrets_dir_for(g)] # Unset
    <3>1. finished'[g] = finished[g] /\ secrets_dir_for(g) # D
      BY <1>1, <2>2
    <3>2. secret[secrets_dir_for(g)] # Unset
      BY <2>2, <3>1 DEF Loading, Files
    <3> QED
      BY <1>1, <3>1, <3>2, PlaceOf
  <2> QED
    BY <2>1, <2>2
<1>3. ASSUME NEW d \in Places, secret'[d] # Unset
      PROVE  \E a \in AnswerSets, private \in BOOLEAN :
               secret'[d] = [token |-> a.token, private |-> private]
  <2>1. CASE d = D
    BY <1>1, <1>3, <2>1
  <2>2. CASE d # D
    BY <1>1, <1>3, <2>2, SecretTyped DEF Loading
  <2> QED
    BY <2>1, <2>2
<1>4. ASSUME NEW g \in Paths
      PROVE  \/ file'[g] \in {Unset, NoVars}
             \/ \E a \in AnswerSets : file'[g] = render_env(a, g)
  BY DEF Loading, Files
<1>5. dropin' \in BOOLEAN /\ launches' \in 0 .. MaxLaunches
  BY DEF Loading, Files
<1>6. Files'
  BY <1>2, <1>3, <1>4, <1>5 DEF Files
<1>7. SettledSound'
  BY <1>1 DEF SettledSound
<1> QED
  BY <1>1, <1>6, <1>7

\* The old token goes, or stays with all that was known of it.
LEMMA RemoveSecretLoads ==
  ASSUME Inv, Loading, NEW x \in Procs, RemoveSecret(x)
  PROVE  Loading'
<1> DEFINE p == proc[x]
           f == wizard_target(p.l)
           D == secrets_dir_for(f)
<1>1. /\ p.pc = "wiz_remove" /\ p.pc \in WizardPC \ AskPC /\ p.pc \in StartPC
      /\ Goto(x, "wiz_token") /\ UNCHANGED <<file, dir, dropin, launches>>
  BY DEF RemoveSecret, WizardPC, StartPC, AskPC
<1>2. PICK q : Becomes(x, q) /\ q.pc = "wiz_token" /\ Kept(q, p)
  BY <1>1, GoesTo
<1>3. /\ x = "operator" /\ Wizard(p) /\ p.l \in Launches /\ f \in Paths
      /\ D \in Places
  BY <1>1, InWizard, PlaceOf
<1>4. q.pc \in WizardPC \ AskPC
  BY <1>2 DEF WizardPC, AskPC
<1>5. CASE secret' = [secret EXCEPT ![D] = Unset] /\ TokenTouched(f, D)
  <2> HIDE DEF D
  <2>1. /\ Files' /\ SettledSound' /\ settled' = Unset /\ finished'[f] = Unset
        /\ \A g \in Paths : finished'[g] \in {Unset, finished[g]}
    BY <1>1, <1>3, <1>5, SecretStep
  <2>2. Right("operator", q)'
    BY <1>1, <1>2, <1>4, <2>1, WizardTouches
  <2> QED
    BY <1>1, <1>2, <1>3, <2>1, <2>2, OperatorStep
<1>6. CASE UNCHANGED <<secret, finished, settled>>
  <2> HIDE DEF p, f
  <2>1. Wizard(q)
    BY <1>1, <1>2, <1>3, <1>4 DEF Wizard, Kept, Holds
  <2>2. Right(x, q)
    BY <1>2, <1>3, <1>4, <2>1, StillInWizard DEF Kept, Holds
  <2>3. dropin' \in BOOLEAN /\ launches' \in 0 .. MaxLaunches /\ RootsStay
    BY <1>1 DEF Loading, Files, RootsStay
  <2> QED
    BY <1>1, <1>2, <1>6, <2>2, <2>3, QuietLoads
<1> QED
  BY <1>5, <1>6 DEF RemoveSecret, SecretsDir

\* The new token is one that was typed.
LEMMA WriteSecretLoads ==
  ASSUME Inv, Loading, NEW x \in Procs, WriteSecret(x)
  PROVE  Loading'
<1> DEFINE p == proc[x]
           f == wizard_target(p.l)
           D == secrets_dir_for(f)
           t == [token |-> p.ans.token,
                 private |-> secret[D] # Unset /\ secret[D].private]
<1>1. /\ p.pc = "wiz_token" /\ p.pc \in WizardPC \ AskPC /\ p.pc \in StartPC
      /\ Goto(x, "wiz_token_mode") /\ UNCHANGED <<file, dir, dropin, launches>>
      /\ secret' = [secret EXCEPT ![D] = t] /\ TokenTouched(f, D)
  BY DEF WriteSecret, SecretsDir, WizardPC, StartPC, AskPC
<1>2. PICK q : Becomes(x, q) /\ q.pc = "wiz_token_mode" /\ Kept(q, p)
  BY <1>1, GoesTo
<1>3. /\ x = "operator" /\ Wizard(p) /\ p.l \in Launches /\ f \in Paths
      /\ p.ans \in AnswerSets /\ D \in Places
  BY <1>1, InWizard, PlaceOf DEF Wizard
<1>4. (secret[D] # Unset /\ secret[D].private) \in BOOLEAN
  OBVIOUS
<1>5. \E a \in AnswerSets, private \in BOOLEAN : t = [token |-> a.token, private |-> private]
  BY <1>3, <1>4
<1>6. t # Unset
  BY <1>5, UnsetAssumption
<1> HIDE DEF t, D
<1>7. secret'[D] = t
  BY <1>1, <1>3 DEF Inv, DiskTyped
<1>8. q.pc \in WizardPC \ AskPC
  BY <1>2 DEF WizardPC, AskPC
<1>9. /\ Files' /\ SettledSound' /\ settled' = Unset /\ finished'[f] = Unset
      /\ \A g \in Paths : finished'[g] \in {Unset, finished[g]}
  BY <1>1, <1>3, <1>5, SecretStep
<1>10. Right("operator", q)'
  BY <1>1, <1>2, <1>6, <1>7, <1>8, <1>9, WizardTouches DEF D
<1> QED
  BY <1>1, <1>2, <1>3, <1>9, <1>10, OperatorStep

\* Only the mode of the token changes.
LEMMA ProtectSecretLoads ==
  ASSUME Inv, Loading, NEW x \in Procs, ProtectSecret(x)
  PROVE  Loading'
<1> DEFINE p == proc[x]
           f == wizard_target(p.l)
           D == secrets_dir_for(f)
<1>1. /\ p.pc = "wiz_token_mode" /\ p.pc \in WizardPC \ AskPC /\ p.pc \in StartPC
      /\ Goto(x, "wiz_truncate")
      /\ UNCHANGED <<file, dir, dropin, launches, finished, settled>>
      /\ secret' = [secret EXCEPT ![D].private = TRUE]
  BY DEF ProtectSecret, SecretsDir, WizardPC, StartPC, AskPC
<1>2. PICK q : Becomes(x, q) /\ q.pc = "wiz_truncate" /\ Kept(q, p)
  BY <1>1, GoesTo
<1>3. /\ x = "operator" /\ Wizard(p) /\ p.l \in Launches /\ f \in Paths
      /\ secret[D] # Unset /\ D \in Places
  BY <1>1, InWizard, PlaceOf DEF Wizard
<1>4. PICK a \in AnswerSets, private \in BOOLEAN :
        secret[D] = [token |-> a.token, private |-> private]
  BY <1>3, SecretTyped, AtWork
<1> DEFINE t == [token |-> a.token, private |-> TRUE]
<1> HIDE DEF D
<1>5. \A d \in Places : secret'[d] = IF d = D THEN t ELSE secret[d]
  <2>1. [secret[D] EXCEPT !.private = TRUE] = t
    <3>1. ASSUME NEW u, IsSecret(u), NEW mode
          PROVE  LET v == [u EXCEPT !.private = mode] IN
                 IsSecret(v) /\ v.token = u.token /\ v.private = mode
      BY <3>1 DEF IsSecret
    <3>2. IsSecret(secret[D]) /\ secret[D].token = a.token
      BY <1>3, <1>4 DEF Inv, DiskTyped
    <3> DEFINE v == [secret[D] EXCEPT !.private = TRUE]
    <3>3. IsSecret(v) /\ v.token = a.token /\ v.private = TRUE
      BY <3>1, <3>2
    <3> HIDE DEF v
    <3>4. v = t
      BY <3>3 DEF IsSecret
    <3> QED
      BY <3>4 DEF v
  <2>2. secret' = [secret EXCEPT ![D] = t]
    BY <1>1, <2>1
  <2> HIDE DEF t
  <2> QED
    BY <1>3, <2>2 DEF Inv, DiskTyped
<1>6. t # Unset
  BY UnsetAssumption
<1>7. \E b \in AnswerSets, private2 \in BOOLEAN : t = [token |-> b.token, private |-> private2]
  OBVIOUS
<1> HIDE DEF t
<1>8. Files'
  <2>1. ASSUME NEW d \in Places, secret'[d] # Unset
        PROVE  \E b \in AnswerSets, private2 \in BOOLEAN :
                 secret'[d] = [token |-> b.token, private |-> private2]
    BY <1>5, <1>7, <2>1, SecretTyped, AtWork
  <2>2. ASSUME NEW g \in Paths, finished'[g] # Unset, finished'[g].mode # "off"
        PROVE  secret'[secrets_dir_for(g)] # Unset
    <3>1. secret[secrets_dir_for(g)] # Unset /\ secrets_dir_for(g) \in Places
      BY <1>1, <2>2, PlaceOf DEF Loading, Files
    <3> QED
      BY <1>5, <1>6, <3>1
  <2>3. ASSUME NEW g \in Paths
        PROVE  /\ \/ file'[g] \in {Unset, NoVars}
                  \/ \E b \in AnswerSets : file'[g] = render_env(b, g)
               /\ finished'[g] \in AnswerSets \cup {Unset}
    BY <1>1 DEF Loading, Files
  <2>4. dropin' \in BOOLEAN /\ launches' \in 0 .. MaxLaunches
    BY <1>1 DEF Loading, Files
  <2> QED
    BY <2>1, <2>2, <2>3, <2>4 DEF Files
<1>9. /\ \A l : NotHidden(l)' <=> NotHidden(l)
      /\ AllWhole' <=> AllWhole
  BY <1>1 DEF NotHidden, AllWhole
<1>10. \A l : SettledAs(l)' <=> SettledAs(l)
  BY <1>1, <1>9 DEF SettledAs
<1>11. /\ q.l = p.l /\ q.bare = p.bare /\ q.env = p.env /\ q.ans = p.ans
       /\ q.blind = p.blind /\ q.pc \in WizardPC \ AskPC /\ p.pc \notin AskPC
  BY <1>1, <1>2 DEF Kept, Holds, WizardPC, AskPC
<1>12. secret'[D] # Unset
  BY <1>3, <1>5, <1>6
<1>13. SettledSound'
  BY <1>1, <1>9 DEF Loading, SettledSound, Owns
<1>14. /\ q.ans \in AnswerSets
       /\ q.bare /\ q.l.command = "serve" => q.env = NoVars
       /\ q.bare /\ ~q.blind /\ q.l.command = "serve" => NotHidden(q.l)'
       /\ q.bare /\ ~q.blind => ~SettledAs(q.l)'
       /\ NoEmptyDomain /\ ~q.blind /\ q.l.command # "reconfigure"
            => ~AllWhole' \/ finished'[wizard_target(q.l)] = Unset
       /\ wizard_target(q.l) = f
  BY <1>1, <1>3, <1>9, <1>10, <1>11 DEF Wizard
<1> HIDE DEF p, f, D
<1>15. Wizard(q)'
  BY <1>2, <1>12, <1>14 DEF Wizard, D
<1>16. Right("operator", q)'
  BY <1>3, <1>11, <1>15, NextInWizard
<1> QED
  BY <1>1, <1>2, <1>3, <1>8, <1>13, <1>16, OperatorStep

\* An emptied file is still there, so the service's file never goes away.
LEMMA TruncateEnvFileLoads ==
  ASSUME Inv, Loading, NEW x \in Procs, TruncateEnvFile(x)
  PROVE  Loading'
<1> DEFINE p == proc[x]
           f == wizard_target(p.l)
<1>1. /\ p.pc = "wiz_truncate" /\ p.pc \in WizardPC \ AskPC /\ p.pc \in StartPC
      /\ Goto(x, "wiz_write") /\ UNCHANGED <<secret, dir, dropin, launches>>
      /\ file' = [file EXCEPT ![f] = NoVars] /\ Touched(f)
  BY DEF TruncateEnvFile, WizardPC, StartPC, AskPC
<1>2. PICK q : Becomes(x, q) /\ q.pc = "wiz_write" /\ Kept(q, p)
  BY <1>1, GoesTo
<1>3. /\ x = "operator" /\ Wizard(p) /\ p.l \in Launches /\ f \in Paths
      /\ p.ans.mode # "off" => secret[secrets_dir_for(f)] # Unset
  BY <1>1, InWizard DEF Wizard
<1>4. q.pc \in WizardPC \ AskPC
  BY <1>2 DEF WizardPC, AskPC
<1>5. \A g \in Paths : /\ file'[g] = IF g = f THEN NoVars ELSE file[g]
                       /\ finished'[g] = IF g = f THEN Unset ELSE finished[g]
  BY <1>1, <1>3 DEF Touched, Inv, DiskTyped
<1>6. Right("operator", q)'
  BY <1>1, <1>2, <1>3, <1>4, <1>5, WizardTouches DEF Kept, Holds, Touched
<1>7. Files'
  <2>1. ASSUME NEW g \in Paths
        PROVE  /\ \/ file'[g] \in {Unset, NoVars}
                  \/ \E a \in AnswerSets : file'[g] = render_env(a, g)
               /\ finished'[g] \in AnswerSets \cup {Unset}
               /\ finished'[g] # Unset /\ finished'[g].mode # "off"
                    => secret'[secrets_dir_for(g)] # Unset
    BY <1>1, <1>5 DEF Loading, Files
  <2>2. ASSUME NEW d \in Places, secret'[d] # Unset
        PROVE  \E a \in AnswerSets, private \in BOOLEAN :
                 secret'[d] = [token |-> a.token, private |-> private]
    BY <1>1, <2>2, SecretTyped, AtWork
  <2>3. dropin' \in BOOLEAN /\ launches' \in 0 .. MaxLaunches
    BY <1>1 DEF Loading, Files
  <2> QED
    BY <2>1, <2>2, <2>3 DEF Files
<1>8. SettledSound'
  BY <1>1 DEF Touched, SettledSound
<1>9. file["etc"] # Unset => file'["etc"] # Unset
  BY <1>5, UnsetAssumption DEF Paths
<1> QED
  BY <1>2, <1>3, <1>6, <1>7, <1>8, <1>9, OperatorStep

\* The setup is finished, and its process goes on or ends.
LEMMA WriteEnvFileLoads ==
  ASSUME Inv, Loading, NEW x \in Procs, WriteEnvFile(x)
  PROVE  Loading'
<1> DEFINE p == proc[x]
           f == wizard_target(p.l)
<1>1. /\ p.pc = "wiz_write" /\ p.pc \in WizardPC \ AskPC /\ p.pc \in StartPC
      /\ UNCHANGED <<secret, dir, dropin, launches, settled>>
      /\ file' = [file EXCEPT ![f] = render_env(p.ans, f)]
      /\ finished' = [finished EXCEPT ![f] = p.ans]
  BY DEF WriteEnvFile, WizardPC, StartPC, AskPC
<1>2. /\ x = "operator" /\ Wizard(p) /\ p.l \in Launches /\ p.l \in AnyLaunch
      /\ f \in Paths /\ p.ans \in AnswerSets
      /\ p.ans.mode # "off" => secret[secrets_dir_for(f)] # Unset
      /\ settled = Unset
      /\ p.bare /\ p.l.command = "serve" => p.env = NoVars
      /\ p.bare /\ ~p.blind /\ p.l.command = "serve" => NotHidden(p.l)
  BY <1>1, InWizard DEF Wizard
<1>3. \A g \in Paths :
        /\ file'[g] = IF g = f THEN render_env(p.ans, f) ELSE file[g]
        /\ finished'[g] = IF g = f THEN p.ans ELSE finished[g]
  BY <1>1, <1>2 DEF Inv, DiskTyped
<1>4. Files'
  <2>1. ASSUME NEW g \in Paths
        PROVE  /\ \/ file'[g] \in {Unset, NoVars}
                  \/ \E a \in AnswerSets : file'[g] = render_env(a, g)
               /\ finished'[g] \in AnswerSets \cup {Unset}
               /\ finished'[g] # Unset /\ finished'[g].mode # "off"
                    => secret'[secrets_dir_for(g)] # Unset
    BY <1>1, <1>2, <1>3 DEF Loading, Files
  <2>2. ASSUME NEW d \in Places, secret'[d] # Unset
        PROVE  \E a \in AnswerSets, private \in BOOLEAN :
                 secret'[d] = [token |-> a.token, private |-> private]
    BY <1>1, <2>2, SecretTyped, AtWork
  <2>3. dropin' \in BOOLEAN /\ launches' \in 0 .. MaxLaunches
    BY <1>1 DEF Loading, Files
  <2> QED
    BY <2>1, <2>2, <2>3 DEF Files
<1>5. SettledSound'
  BY <1>1, <1>2 DEF SettledSound
<1>6. file["etc"] # Unset => file'["etc"] # Unset
  BY <1>2, <1>3, UnsetAssumption DEF Paths
<1>7. ASSUME p.l.command = "serve", Goto(x, "reload") PROVE Loading'
  <2>1. PICK q : Becomes(x, q) /\ q.pc = "reload" /\ Kept(q, p)
    BY <1>1, <1>7, GoesTo
  <2>2. /\ q.l = p.l /\ q.bare = p.bare /\ q.env = p.env /\ q.ans = p.ans
        /\ q.blind = p.blind
    BY <2>1 DEF Kept, Holds
  <2>3. NotHidden(q.l) => NotHidden(q.l)'
    <3>1. ~q.l.root /\ q.l.envfile = Unset => f # "etc"
      BY <1>2, <2>2, TargetIsLookedAt
    <3> QED
      BY <1>3, <3>1 DEF NotHidden, Paths
  <2>4. finished'[wizard_target(q.l)] = q.ans
    BY <1>2, <1>3, <2>2
  <2>5. /\ q.bare => q.env = NoVars
        /\ q.bare /\ ~q.blind => NotHidden(q.l)'
    BY <1>2, <1>7, <2>2, <2>3
  <2>6. q.ans \in AnswerSets /\ q.l.command = "serve" /\ q.l \in Launches
    BY <1>2, <1>7, <2>2
  <2>7. settled' = Unset
    BY <1>1, <1>2
  <2> HIDE DEF p, f
  <2>8. SetUp(q)'
    BY <2>4, <2>5, <2>6 DEF SetUp
  <2>9. Operates(q)'
    BY <2>1, <2>5, <2>6, <2>7, <2>8 DEF Operates, WizardPC, AskPC
  <2>10. Effect("operator", q)'
    BY <2>1 DEF Effect
  <2>11. Right("operator", q)'
    BY <2>1, <2>9, <2>10 DEF Right, StartPC
  <2> QED
    BY <1>2, <1>4, <1>5, <1>6, <2>1, <2>11, OperatorStep
<1>8. ASSUME Exit(x, "done") PROVE Loading'
  <2>1. PICK q : Becomes(x, q) /\ q.pc = "done"
    BY <1>8, Exits
  <2>2. Right("operator", q)'
    BY <2>1 DEF Right, Operates, Serves, Effect, StartPC, WizardPC, EndPC, AskPC
  <2> QED
    BY <1>2, <1>4, <1>5, <1>6, <2>1, <2>2, OperatorStep
<1> QED
  BY <1>7, <1>8 DEF WriteEnvFile

\* What a process that stands on the answers of a file has to configure itself.
LEMMA Standing ==
  ASSUME Inv, Loading, NEW x \in Procs, proc[x].pc = "configure",
         Source(proc[x]) # Unset, proc[x].bare \/ x = "systemd"
  PROVE  LET p == proc[x]
             a == Source(p)
         IN /\ p.src \in Paths /\ a \in AnswerSets /\ Shows(p.env, a, p.src)
            /\ a.mode # "off" => LET D == secrets_dir_for(p.src) IN
                                 secret[D] # Unset /\ secret[D].token = a.token
<1> DEFINE p == proc[x]
           a == Source(p)
<1>1. p.src # Unset /\ finished[p.src] = p.from /\ a = p.from /\ p.pc \in StartPC
  BY DEF Source, StartPC
<1>2. CASE x = "systemd"
  <2>1. p.src = "etc" /\ p.from \in AnswerSets /\ Shows(p.env, p.from, "etc")
    BY <1>1, <1>2, AtWork DEF Serves
  <2>2. "etc" \in Paths
    BY DEF Paths
  <2> QED
    BY <1>1, <2>1, <2>2, WholeFile, AtWork
<1>3. CASE x = "operator"
  <2>1. p.l \in Launches /\ p.l \in AnyLaunch /\ p.bare
    BY <1>1, <1>3, AtWork DEF Operates, AnyLaunch
  <2>2. p.src \in Paths /\ p.env = file[p.src]
    <3>1. CASE p.ans = Unset
      <4>1. Current(p)
        BY <1>3, <3>1, AtWork DEF Operates
      <4> QED
        BY <1>1, <2>1, <4>1, TargetIsLookedAt DEF Current, Found
    <3>2. CASE p.ans # Unset
      BY <1>3, <2>1, <3>2, AtWork, TargetIsPath DEF Operates
    <3> QED
      BY <3>1, <3>2
  <2>3. /\ a \in AnswerSets /\ p.env = render_env(a, p.src)
        /\ a.mode # "off" => LET D == secrets_dir_for(p.src) IN
                             secret[D] # Unset /\ secret[D].token = a.token
    BY <1>1, <2>2, WholeFile, AtWork
  <2>4. Shows(p.env, a, p.src)
    BY <2>3 DEF Shows
  <2> QED
    BY <2>2, <2>3, <2>4
<1> QED
  BY <1>2, <1>3, AtWork

\* The outcome is what the answers say, or that the token was not read.
LEMMA Outcome ==
  ASSUME Inv, Loading, NEW x \in Procs, proc[x].pc = "configure",
         Source(proc[x]) # Unset, proc[x].bare \/ x = "systemd",
         NEW fault \in TokenRead(x, proc[x].env)
  PROVE  LET p == proc[x]
             a == Source(p)
             c == Config(x, p.env)
         IN /\ fault \in {"read", "denied", "failed"}
            /\ fault = "read" /\ Valid(c) => Fits(c, a)
            /\ fault = "read" /\ ~Valid(c) => ~WellAnswered(a)
<1> DEFINE p == proc[x]
           a == Source(p)
           f == p.src
           token == TokenOf(x, p.env)
           c == Config(x, p.env)
<1>1. /\ f \in Paths /\ a \in AnswerSets /\ Shows(p.env, a, f)
      /\ a.mode # "off" => LET D == secrets_dir_for(f) IN
                           secret[D] # Unset /\ secret[D].token = a.token
  BY Standing
<1>2. c = ConfigOf(a, token)
  BY <1>1, ConfigShown
<1>3. /\ \A r \in TokenRead(x, p.env) : r \in {"read", "denied", "failed"}
      /\ a.mode # "off" => token = a.token
  <2> DEFINE may == MayUse(x, p.l, secrets_dir_for(f))
             read == TokenRead(x, p.env)
  <2>1. /\ a.mode # "off" => read = IF may THEN {"read", "failed"} ELSE {"denied"}
        /\ a.mode = "off" => read \in SUBSET {"read", "failed"}
        /\ a.mode # "off" => token = a.token
    BY <1>1, TokenShown
  <2> HIDE DEF may, read
  <2>2. \A r \in read : r \in {"read", "denied", "failed"}
    BY <2>1
  <2> QED
    BY <2>1, <2>2 DEF read
<1> HIDE DEF token, c, a, f, p
<1>4. Valid(c) => Fits(c, a)
  BY <1>1, <1>2, <1>3, ValidFits
<1>5. WellAnswered(a) => Valid(c)
  BY <1>1, <1>2, <1>3, WellAnsweredValid
<1>6. fault \in {"read", "denied", "failed"}
  BY <1>3 DEF p
<1> QED
  BY <1>4, <1>5, <1>6 DEF c, a, p

\* On the file its own wizard would write, an operator's launch gets exactly
\* what was typed. What it makes of the token is up to who owns that.
LEMMA OwnFile ==
  ASSUME Inv, Loading, NEW p, p = proc["operator"], p.l \in Launches,
         LET t == wizard_target(p.l) IN
           finished[t] # Unset /\ p.env = file[t]
  PROVE  LET t == wizard_target(p.l)
             a == finished[t]
             D == secrets_dir_for(t)
         IN
         /\ a \in AnswerSets
         /\ Config("operator", p.env) = ConfigOf(a, TypedToken(a))
         /\ a.mode = "off" => TokenRead("operator", p.env) = {"read"}
         /\ a.mode # "off" =>
              /\ dir[D] # Unset
              /\ TokenRead("operator", p.env) =
                   IF Owns(p.l, dir, D) THEN {"read", "failed"} ELSE {"denied"}
<1> DEFINE t == wizard_target(p.l)
           a == finished[t]
           D == secrets_dir_for(t)
<1>1. p.l \in AnyLaunch /\ t \in Paths /\ "operator" \in Procs /\ D \in Places
  BY TargetIsPath, PlaceOf DEF AnyLaunch, Procs
<1>2. /\ a \in AnswerSets /\ p.env = render_env(a, t)
      /\ a.mode # "off" => secret[D] # Unset /\ secret[D].token = a.token
  BY <1>1, WholeFile, AtWork
<1>3. Shows(p.env, a, t)
  BY <1>2 DEF Shows
<1>4. MayUse("operator", p.l, D) <=> Owns(p.l, dir, D)
  BY DEF MayUse, Owns
<1>5. Config("operator", p.env) = ConfigOf(a, TokenOf("operator", p.env))
  BY <1>1, <1>2, <1>3, ConfigShown
<1>6. /\ a.mode # "off" =>
           /\ TokenRead("operator", p.env) =
                IF MayUse("operator", p.l, D) THEN {"read", "failed"} ELSE {"denied"}
           /\ TokenOf("operator", p.env) = a.token
      /\ p.env["TOKEN_FILE"] = Unset => /\ TokenOf("operator", p.env) = Empty
                                        /\ TokenRead("operator", p.env) = {"read"}
  BY <1>1, <1>2, <1>3, TokenShown
<1>7. p.env["TOKEN_FILE"] = IF a.mode # "off" THEN D ELSE Unset
  <2>1. render_env(a, t)["TOKEN_FILE"] = IF a.mode # "off" THEN D ELSE Unset
    BY RenderVars
  <2> QED
    BY <1>2, <2>1
<1>8. TokenOf("operator", p.env) = TypedToken(a)
  BY <1>6, <1>7 DEF TypedToken
<1>9. a.mode # "off" => dir[D] # Unset
  BY <1>1, <1>2 DEF Inv, DiskTyped
<1> QED
  BY <1>2, <1>4, <1>5, <1>6, <1>7, <1>8, <1>9

\* A launch like the one that came up comes up the same, or fails to read the
\* token it is permitted to read.
LEMMA ComesUpAgain ==
  ASSUME Inv, Loading, NEW p, p = proc["operator"], p.pc = "configure",
         p.bare, ~p.blind, SettledAs(p.l)
  PROVE  /\ Config("operator", p.env) = settled.cfg /\ Valid(settled.cfg)
         /\ \A fault \in TokenRead("operator", p.env) : fault \in {"read", "failed"}
<1> DEFINE t == wizard_target(p.l)
           a == finished[t]
           D == secrets_dir_for(t)
<1>1. Operates(p) /\ "operator" \in Procs /\ p.pc \in StartPC
  BY AtWork DEF Procs, StartPC
<1>2. /\ p.l \in Launches /\ p.l \in AnyLaunch /\ t \in Paths
      /\ a \in AnswerSets /\ NotHidden(p.l) /\ AllWhole
      /\ settled.cfg = ConfigOf(a, TypedToken(a)) /\ Valid(settled.cfg)
      /\ a.mode # "off" => Owns(p.l, dir, D)
  BY <1>1, TargetIsPath DEF SettledAs, SettledSound, Loading, Operates, AnyLaunch
<1>3. a # Unset
  BY <1>2, UnsetAssumption
<1>4. p.env = file[t]
  <2>1. CASE p.ans = Unset
    <3>1. Found(p)
      BY <1>1, <2>1 DEF Operates, Current
    <3>2. file[t] # Unset
      BY <1>2, <1>3, WholeFile DEF Loading
    <3>3. p.l.root \/ p.l.envfile # Unset \/ file["etc"] = Unset
      BY <1>2 DEF NotHidden, AllWhole, Paths
    <3>4. FirstExisting(p.l) = t
      BY <1>2, <3>2, <3>3, TargetIsLookedAt
    <3>5. t # Unset
      BY <1>2, UnsetAssumption
    <3> QED
      BY <3>1, <3>4, <3>5 DEF Found
  <2>2. CASE p.ans # Unset
    BY <1>1, <2>2 DEF Operates
  <2> QED
    BY <2>1, <2>2
<1>5. /\ Config("operator", p.env) = ConfigOf(a, TypedToken(a))
      /\ a.mode = "off" => TokenRead("operator", p.env) = {"read"}
      /\ a.mode # "off" => TokenRead("operator", p.env) =
           IF Owns(p.l, dir, D) THEN {"read", "failed"} ELSE {"denied"}
  BY <1>2, <1>3, <1>4, OwnFile
<1> QED
  BY <1>2, <1>5

\* The record of a process that is refused.
Refusal(q, p, fault) ==
  /\ q.pc = "misconfigured" /\ q.l = p.l /\ q.bare = p.bare /\ q.blind = p.blind
  /\ q.src = p.src /\ q.from = Source(p) /\ q.fault = fault

\* A process that does not come up says why.
LEMMA RefusedLoads ==
  ASSUME Inv, Loading, NEW x \in Procs, proc[x].pc = "configure",
         UNCHANGED <<disk, finished, settled>>,
         NEW q, Becomes(x, q), NEW fault, Refusal(q, proc[x], fault),
         LET p == proc[x] IN
         /\ Source(p) # Unset /\ (p.bare \/ x = "systemd") /\ WellAnswered(Source(p))
              => fault \in {"denied", "failed"}
         /\ x = "operator" /\ p.bare /\ ~p.blind /\ SettledAs(p.l) => fault = "failed"
  PROVE  Loading'
<1> DEFINE p == proc[x]
<1>1. /\ q.pc = "misconfigured" /\ q.l = p.l /\ q.bare = p.bare /\ q.blind = p.blind
      /\ q.from = Source(p) /\ q.fault = fault
  BY DEF Refusal
<1> HIDE DEF p
<1>2. Effect(x, q)
  BY <1>1 DEF Effect, p
<1>3. x = "operator" => Operates(q)
  BY <1>1 DEF Operates, StartPC, WizardPC, AskPC, p
<1>4. Serves(q)
  BY <1>1 DEF Serves, StartPC, WizardPC
<1>5. Right(x, q)
  BY <1>1, <1>2, <1>3, <1>4 DEF Right, EndPC
<1> QED
  BY <1>5, QuietStep

\* The record of a process that has come up.
Up(q, p, c) ==
  /\ q.pc = "running" /\ q.l = p.l /\ q.bare = p.bare /\ q.blind = p.blind
  /\ q.from = Source(p) /\ q.cfg = c

\* A launch that asked, read what there was, and comes up, is settled.
LEMMA SettlingLoads ==
  ASSUME Inv, Loading, NEW x \in Procs, proc[x].pc = "configure",
         UNCHANGED <<disk, finished>>, NEW q, Becomes(x, q),
         LET p == proc[x]
             c == Config(x, p.env)
         IN /\ Up(q, p, c) /\ Valid(c) /\ Effect(x, q)
            /\ p.ans # Unset /\ p.bare /\ ~p.blind
            /\ "read" \in TokenRead(x, p.env)
            /\ settled' = [l |-> p.l, cfg |-> c]
  PROVE  Loading'
<1> DEFINE p == proc[x]
           c == Config(x, p.env)
           t == wizard_target(p.l)
           a == finished[t]
           D == secrets_dir_for(t)
<1>1. x = "operator"
  BY AtWork DEF Serves, StartPC
<1>2. /\ p.l \in Launches /\ SetUp(p) /\ p.src = t /\ p.env = file[t]
  BY <1>1, AtWork DEF Operates, StartPC
<1>3. a \in AnswerSets /\ a # Unset /\ NotHidden(p.l) /\ p.l.command = "serve"
  BY <1>2, UnsetAssumption DEF SetUp
<1>4. /\ c = ConfigOf(a, TypedToken(a))
      /\ a.mode # "off" =>
           /\ dir[D] # Unset
           /\ TokenRead("operator", p.env) =
                IF Owns(p.l, dir, D) THEN {"read", "failed"} ELSE {"denied"}
  BY <1>1, <1>2, <1>3, OwnFile
<1>5. a.mode # "off" => dir[D] # Unset /\ Owns(p.l, dir, D)
  <2> SUFFICES ASSUME a.mode # "off", ~Owns(p.l, dir, D) PROVE FALSE
    BY <1>4
  <2> QED
    BY <1>1, <1>4
<1>6. PICK l : l = p.l
  OBVIOUS
<1>7. UNCHANGED <<file, secret, dir, dropin, launches, finished>>
  BY DEF disk
<1>8. NotHidden(l)'
  BY <1>3, <1>6, <1>7 DEF NotHidden
<1>9. settled'.l = l /\ settled'.cfg = c /\ Valid(c)
  BY <1>6
<1>10. finished'[wizard_target(l)] = a /\ secrets_dir_for(wizard_target(l)) = D
  BY <1>6, <1>7
<1>11. l \in Launches /\ l.command = "serve" /\ q.l = l
  BY <1>2, <1>3, <1>6 DEF Up
<1>12. a.mode # "off" => dir'[D] # Unset /\ Owns(l, dir', D)
  BY <1>5, <1>6, <1>7 DEF Owns
<1>13. q.pc = "running" /\ q.cfg = c
  BY DEF Up
<1> HIDE DEF p, c, t, a, D
<1>14. SettledSound'
  BY <1>3, <1>4, <1>8, <1>9, <1>10, <1>11, <1>12 DEF SettledSound
<1>15. Files'
  BY <1>7 DEF Loading, Files
<1>16. Operates(q)'
  BY <1>9, <1>13 DEF Operates, StartPC, WizardPC, AskPC
<1>17. Effect("operator", q)'
  BY <1>1 DEF Effect
<1>18. Right("operator", q)'
  BY <1>13, <1>16, <1>17 DEF Right, EndPC
<1> QED
  BY <1>1, <1>7, <1>14, <1>15, <1>18, OperatorStep

\* The configuration is what the answers say, the first time and again.
LEMMA ConfigureLoads ==
  ASSUME Inv, Loading, NEW x \in Procs, Configure(x)
  PROVE  Loading'
<1> DEFINE p == proc[x]
           c == Config(x, p.env)
           refused(fault) ==
             [pc |-> "misconfigured", l |-> p.l, bare |-> p.bare, blind |-> p.blind,
              src |-> p.src, from |-> Source(p), credential |-> p.credential,
              fault |-> fault]
           up == [pc |-> "running", l |-> p.l, bare |-> p.bare, blind |-> p.blind,
                  from |-> Source(p), cfg |-> c]
<1>1. p.pc = "configure" /\ UNCHANGED <<disk, finished>>
  BY DEF Configure
<1> PICK fault \in TokenRead(x, p.env) :
      \/ /\ fault # "read"
         /\ proc' = [proc EXCEPT ![x] = refused(fault)] /\ UNCHANGED settled
      \/ /\ fault = "read" /\ ~Valid(c)
         /\ proc' = [proc EXCEPT ![x] = refused("invalid")] /\ UNCHANGED settled
      \/ /\ fault = "read" /\ Valid(c)
         /\ \/ /\ proc' = [proc EXCEPT ![x] = up]
               /\ settled' = IF p.ans = Unset \/ ~p.bare \/ p.blind
                               THEN settled ELSE [l |-> p.l, cfg |-> c]
            \/ Exit(x, "failed") /\ UNCHANGED settled
  BY DEF Configure
<1>2. Source(p) # Unset /\ (p.bare \/ x = "systemd") =>
        /\ fault \in {"read", "denied", "failed"}
        /\ fault = "read" /\ Valid(c) => Fits(c, Source(p))
        /\ fault = "read" /\ ~Valid(c) => ~WellAnswered(Source(p))
  BY <1>1, Outcome
<1>3. x = "operator" /\ p.bare /\ ~p.blind /\ SettledAs(p.l) =>
        c = settled.cfg /\ Valid(c) /\ fault \in {"read", "failed"}
  BY <1>1, ComesUpAgain
<1>4. CASE Exit(x, "failed") /\ UNCHANGED settled
  BY <1>1, <1>4, EndStep
<1>5. ASSUME NEW why, proc' = [proc EXCEPT ![x] = refused(why)], UNCHANGED settled,
             \/ fault # "read" /\ why = fault
             \/ fault = "read" /\ ~Valid(c) /\ why = "invalid"
      PROVE  Loading'
  <2>1. PICK q : q = refused(why)
    OBVIOUS
  <2>2. Refusal(q, p, why)
    BY <2>1 DEF Refusal
  <2>3. Becomes(x, q)
    BY <1>5, <2>1, StepBecomes
  <2> HIDE DEF refused, up, c
  <2>4. /\ Source(p) # Unset /\ (p.bare \/ x = "systemd") /\ WellAnswered(Source(p))
             => why \in {"denied", "failed"}
        /\ x = "operator" /\ p.bare /\ ~p.blind /\ SettledAs(p.l) => why = "failed"
    BY <1>2, <1>3, <1>5
  <2> QED
    BY <1>1, <1>5, <2>2, <2>3, <2>4, RefusedLoads
<1>6. ASSUME fault = "read", Valid(c), proc' = [proc EXCEPT ![x] = up],
             settled' = IF p.ans = Unset \/ ~p.bare \/ p.blind
                          THEN settled ELSE [l |-> p.l, cfg |-> c]
      PROVE  Loading'
  <2>1. PICK q : q = up
    OBVIOUS
  <2>2. Up(q, p, c)
    BY <2>1 DEF Up
  <2>3. Becomes(x, q)
    BY <1>6, <2>1, StepBecomes
  <2>4. Effect(x, q)
    <3> HIDE DEF p, refused, up, c
    <3> QED
      BY <1>2, <1>6, <2>2 DEF Effect, Up
  <2>5. CASE p.ans = Unset \/ ~p.bare \/ p.blind
    <3>1. UNCHANGED settled
      BY <1>6, <2>5
    <3> HIDE DEF p, refused, up, c
    <3>2. x = "operator" => Operates(q)
      BY <1>3, <2>2 DEF Operates, Up, StartPC, WizardPC, AskPC
    <3>3. Serves(q)
      BY <2>2 DEF Serves, Up, StartPC, WizardPC
    <3>4. Right(x, q)
      BY <2>2, <2>4, <3>2, <3>3 DEF Right, Up, EndPC
    <3> QED
      BY <1>1, <2>3, <3>1, <3>4, QuietStep
  <2>6. CASE p.ans # Unset /\ p.bare /\ ~p.blind
    BY <1>1, <1>6, <2>2, <2>3, <2>4, <2>6, SettlingLoads
  <2> QED
    BY <2>5, <2>6
<1> QED
  BY <1>4, <1>5, <1>6

\* Nothing is loaded at first.
LEMMA LoadingInit == Init => Loading
<1> SUFFICES ASSUME Init PROVE Loading
  OBVIOUS
<1>1. Files
  <2>1. /\ \A f \in Paths : file[f] = Unset /\ finished[f] = Unset
        /\ \A d \in Places : secret[d] = Unset
    BY DEF Init
  <2>2. dropin \in BOOLEAN
    BY DEF Init
  <2>3. launches = 0 /\ MaxLaunches \in Nat
    BY BoundAssumption DEF Init
  <2>4. launches \in 0 .. MaxLaunches
    BY <2>3
  <2> QED
    BY <2>1, <2>2, <2>4 DEF Files
<1>2. SettledSound
  BY DEF Init, SettledSound
<1>3. \A x \in Procs : proc[x].pc = "none"
  BY DEF Init, NoProc
<1> QED
  BY <1>1, <1>2, <1>3, EndRight DEF Loading

\* Every step keeps what is known.
LEMMA LoadingNext == Inv /\ Loading /\ [Next]_vars => Loading'
<1> SUFFICES ASSUME Inv, Loading, [Next]_vars PROVE Loading'
  OBVIOUS
<1>1. CASE UNCHANGED vars
  <2>1. /\ UNCHANGED <<file, secret, finished, settled, proc>> /\ RootsStay
        /\ dropin' \in BOOLEAN /\ launches' \in 0 .. MaxLaunches
    BY <1>1 DEF vars, Loading, Files, RootsStay
  <2>2. PICK q : q = proc["operator"]
    OBVIOUS
  <2>3. Becomes("operator", q) /\ Right("operator", q) /\ "operator" \in Procs
    BY <2>1, <2>2 DEF Becomes, Loading, Procs
  <2> QED
    BY <2>1, <2>3, QuietLoads
<1>2. ASSUME NEW x \in Procs, Step(x)
      PROVE  Loading'
  <2>1. CASE LoadFirstExisting(x)
    BY <2>1, ServiceLoads, OperatorLoads, AtWork
  <2> QED
    BY <1>2, <2>1, DecideLoads, AskModeLoads, AskRestLoads, DirStepLoads,
       RemoveSecretLoads, WriteSecretLoads, ProtectSecretLoads,
       TruncateEnvFileLoads, WriteEnvFileLoads, ReloadLoads, ConfigureLoads,
       FailLoads DEF Step
<1> QED
  BY <1>1, <1>2, LaunchLoads, StartServiceLoads, InstallDropinLoads, CrashLoads
     DEF Next

\* What is loaded is what the files say.
LEMMA AlwaysLoading == Spec => [](Inv /\ Loading)
<1>1. Init => Inv /\ Loading
  BY InvInit, LoadingInit
<1>2. Inv /\ Loading /\ [Next]_vars => (Inv /\ Loading)'
  BY InvNext, LoadingNext
<1> QED
  BY <1>1, <1>2, PTL DEF Spec

(* Every variable keeps its type: env files set some of the variables, a     *)
(* token file and its directory have a mode, a process is at a place of the  *)
(* program.                                                                  *)
THEOREM StartupTypeCorrect == Spec => []TypeOK
<1>1. Inv /\ Loading => TypeOK
  <2> SUFFICES ASSUME Inv, Loading PROVE TypeOK
    OBVIOUS
  <2>1. ASSUME NEW f \in Paths, file[f] # Unset
        PROVE  DOMAIN file[f] = Vars
    BY <2>1, FileTyped DEF Loading
  <2>2. ASSUME NEW d \in Places, secret[d] # Unset
        PROVE  secret[d].private \in BOOLEAN
    <3>1. PICK a \in AnswerSets, private \in BOOLEAN :
            secret[d] = [token |-> a.token, private |-> private]
      BY <2>2, SecretTyped DEF Loading
    <3> QED
      BY <3>1
  <2>3. /\ \A f \in Paths : finished[f] \in AnswerSets \cup {Unset}
        /\ \A d \in Places : dir[d] \in DirRecord \cup {Unset}
    BY DEF Inv, DiskTyped, Loading, Files
  <2>4. dropin \in BOOLEAN /\ launches \in 0 .. MaxLaunches
    BY DEF Loading, Files
  <2>5. \A x \in Procs : proc[x].pc \in {"none"} \cup StartPC \cup EndPC
    BY DEF Loading, Right
  <2>6. settled # Unset => settled.l \in Launches
    BY DEF Loading, SettledSound
  <2> QED
    BY <2>1, <2>2, <2>3, <2>4, <2>5, <2>6 DEF TypeOK, DirRecord
<1> QED
  BY <1>1, AlwaysLoading, PTL

(* A process on the files of one finished setup, wherever FLOONET_ENV_FILE   *)
(* points and whichever setups share a token file, runs on exactly what was  *)
(* typed, the price to the nanogrin for any number of digits, or does not    *)
(* start for a reason the answers give or because the token was not to be    *)
(* read (setup.rs:188-228 and 388-401, config.rs:129-174 and 178-353).       *)
THEOREM AnswersTake == Spec => []AnswersTakeEffect
<1>1. Inv /\ Loading => AnswersTakeEffect
  <2> SUFFICES ASSUME Loading PROVE AnswersTakeEffect
    OBVIOUS
  <2>1. \A x \in Procs : Effect(x, proc[x])
    BY DEF Loading, Right
  <2> QED
    BY <2>1 DEF Effect, AnswersTakeEffect
<1> QED
  BY <1>1, AlwaysLoading, PTL

(* A launch that came up after its questions asks none the next time and     *)
(* comes up the same, or a read of its token fails, whatever other launches, *)
(* failures and crashes lie in between, as long as every env file is a       *)
(* finished one and this launch could read its own (setup.rs:21-22, 49-60).  *)
THEOREM SameAgain == Spec => []FirstRunThenSame
<1>1. Inv /\ Loading => FirstRunThenSame
  <2> SUFFICES ASSUME Loading PROVE FirstRunThenSame
    OBVIOUS
  <2> DEFINE p == proc["operator"]
  <2>1. Operates(p)
    BY DEF Loading, Right, Procs
  <2> SUFFICES ASSUME p.pc \in WizardPC \cup {"misconfigured", "running"},
                      p.bare, ~p.blind, SettledAs(p.l)
               PROVE  \/ p.pc = "running" /\ p.cfg = settled.cfg
                      \/ p.pc = "misconfigured" /\ p.fault = "failed"
    BY DEF FirstRunThenSame, SettledAs
  <2> HIDE DEF p
  <2> QED
    BY <2>1 DEF Operates, Wizard
<1> QED
  BY <1>1, AlwaysLoading, PTL

\* What is finished somewhere is given up by nobody but a wizard with answers.
LEMMA OnlyWizardTouches ==
  ASSUME Inv, Loading, [Next]_vars,
         NEW f \in Paths, finished[f] # Unset, finished'[f] = Unset
  PROVE  Wizard(proc["operator"])
<1>1. ~UNCHANGED finished
  OBVIOUS
<1>2. PICK x \in Procs : RemoveSecret(x) \/ WriteSecret(x) \/ TruncateEnvFile(x) \/ WriteEnvFile(x)
  BY <1>1 DEF Next, Step, vars, disk, Launch, StartService, InstallDropin, Crash,
     LoadFirstExisting, Decide, AskMode, AskRest, MakeSecretsDir, ProtectSecretsDir,
     ProtectSecret, Reload, Configure, Fail
<1>3. proc[x].pc \in WizardPC
  BY <1>2 DEF RemoveSecret, WriteSecret, TruncateEnvFile, WriteEnvFile, WizardPC
<1> QED
  BY <1>3, InWizard

(* Only a reconfiguration takes apart the setup at the env file the wizard   *)
(* writes, as long as every env file is a finished one, the wizard's launch  *)
(* could read the file it found, and no environment sets an empty domain,    *)
(* which would hide that of the file (main.rs:93-97, setup.rs:49-69 and      *)
(* 155-158).                                                                 *)
THEOREM NeverClobbered ==
  ASSUME NoEmptyDomain
  PROVE  Spec => NeverClobbers
<1>1. Inv /\ Loading /\ [Next]_vars =>
        [LET p == proc["operator"] IN
         \A f \in Paths : finished[f] # Unset /\ finished'[f] = Unset /\ AllWhole
           => p.l.command = "reconfigure" \/ p.blind \/ f # wizard_target(p.l)]_vars
  <2> SUFFICES ASSUME Inv, Loading, [Next]_vars, NEW f \in Paths,
                      finished[f] # Unset, finished'[f] = Unset, AllWhole,
                      ~proc["operator"].blind, f = wizard_target(proc["operator"].l)
               PROVE  proc["operator"].l.command = "reconfigure"
    OBVIOUS
  <2>1. Wizard(proc["operator"])
    BY OnlyWizardTouches
  <2> QED
    BY <2>1 DEF Wizard
<1> QED
  BY <1>1, AlwaysLoading, PTL DEF Spec, NeverClobbers

=============================================================================
