------------------------------- MODULE Startup -------------------------------
(***************************************************************************)
(* How an authority comes to its configuration: the launch of the binary   *)
(* (main.rs), the setup wizard (setup.rs), Config::from_env and validate   *)
(* (config.rs), and the systemd unit and drop-in an installation leaves    *)
(* behind (install.sh, floonet-authority.service).                         *)
(*                                                                         *)
(* Two processes run at a time: the service systemd keeps, and one the     *)
(* operator starts by hand. They share the env files and the secret files. *)
(* Every file operation of the wizard is a step; it may fail or be the     *)
(* last one before a crash, and so may every read. The webhook secret is   *)
(* written and read the way the token is, and the token stands for both.   *)
(***************************************************************************)
EXTENDS GrinAmount

CONSTANTS
  Starts,      \* how the operator may start the binary, in which environment
  AnswerSets,  \* what may be typed into the wizard
  MaxAsks,     \* how often a question is asked before its default stands (5)
  MaxLaunches, \* bound of the operator's launches
  CustomDir,   \* the directory of the file FLOONET_ENV_FILE names
  Placeholder, \* floonet.example, the default domain
  Unset,       \* a variable that is not set, a file that does not exist
  Empty,       \* the empty string
  Credential   \* %d/goblinpay_token, below $CREDENTIALS_DIRECTORY

\* The env files: one that FLOONET_ENV_FILE names, /etc/floonet-authority.env
\* and ./.env.
Paths == {"custom", "etc", "dotenv"}

\* Their directories: /etc, the working directory, or one of its own.
Places == {"etc", "cwd", "own"}

ASSUME CustomAssumption == CustomDir \in Places

\* The token lies in a directory of its own beside the env file, and all env
\* files of a directory share it.
secrets_dir_for(f) ==
  CASE f = "custom" -> CustomDir
    [] f = "etc"    -> "etc"
    [] f = "dotenv" -> "cwd"

Vars == {"DOMAIN", "BASE_URL", "PAY_MODE", "NAME_PRICE", "WRITE_PRICE", "URL",
         "TOKEN", "TOKEN_FILE", "TRANSFERS", "NODE_URL"}

NoVars == [v \in Vars |-> Unset]

PayModes == {"off", "name", "write"}

ServiceLaunch ==
  [command |-> "serve", root |-> FALSE, tty |-> FALSE, envfile |-> Unset]

Launches == {s.l : s \in Starts}

ASSUME LaunchAssumption ==
  \A l \in Launches :
    /\ l.command \in {"serve", "setup", "reconfigure"}
    /\ l.root \in BOOLEAN /\ l.tty \in BOOLEAN
    /\ l.envfile \in Paths \cup {Unset}

ASSUME EnvAssumption == \A s \in Starts : DOMAIN s.env = Vars

\* Each question has a default, so that nothing but a token stays empty.
ASSUME AnswerAssumption ==
  \A a \in AnswerSets :
    /\ a.domain = [name |-> a.domain.name, port |-> a.domain.port]
    /\ a.domain.port \in BOOLEAN /\ a.transfers \in BOOLEAN
    /\ a.domain # Empty /\ a.domain # Unset
    /\ a.mode \in PayModes /\ a.price \in Amount /\ a.price # Unset

ASSUME BoundAssumption == MaxAsks \in Nat \ {0} /\ MaxLaunches \in Nat

VARIABLES
  file,     \* file[f]: the variables env file f sets, or Unset
  secret,   \* secret[d]: the token file in d [token, private], or Unset
  dir,      \* dir[d]: the directory of that token file [private, root], where
            \* root tells whether root made it, or Unset
  dropin,   \* whether install.sh has left the credential drop-in
  proc,     \* proc[x]: what process x does, or NoProc
  launches, \* how often the operator has started the binary
  finished, \* history: the answers file f was last written with, if nothing
            \* it names was written since, or Unset
  settled   \* history: the launch that read what env file there was, asked its
            \* questions and came up, with its configuration, if nothing was
            \* written since, or Unset

vars == <<file, secret, dir, dropin, proc, launches, finished, settled>>
disk == <<file, secret, dir, dropin, launches>>

Procs == {"systemd", "operator"}

NoProc == [pc |-> "none"]

WizardPC == {"wiz_mode", "wiz_rest", "wiz_dir", "wiz_dir_mode", "wiz_remove",
             "wiz_token", "wiz_token_mode", "wiz_truncate", "wiz_write"}

StartPC == {"load", "decide", "reload", "configure"} \cup WizardPC

EndPC == {"running", "done", "failed", "misconfigured"}

Goto(x, pc) == proc' = [proc EXCEPT ![x].pc = pc]

\* The answers the configuration of p stands on: those its env file was
\* written with, unless something was written since it was read.
Source(p) == IF p.src # Unset /\ finished[p.src] = p.from THEN p.from ELSE Unset

\* std::process::exit. Only of a configuration error is more kept.
Exit(x, pc) == proc' = [proc EXCEPT ![x] = [pc |-> pc]]

-----------------------------------------------------------------------------
(* Env files *)

\* load_env_file: variables that are set already stay.
Layer(env, vs) == [v \in Vars |-> IF env[v] # Unset THEN env[v] ELSE vs[v]]

\* MUTANT: the working directory is not looked at.
env_file_candidates_etc(l) ==
  IF l.envfile # Unset THEN <<l.envfile, "etc">> ELSE <<"etc">>

env_file_candidates(l) ==
  (IF l.envfile # Unset THEN <<l.envfile>> ELSE <<>>) \o <<"etc", "dotenv">>

\* Only root can make a file in /etc.
wizard_target(l) ==
  CASE l.envfile # Unset            -> l.envfile
    [] l.envfile = Unset /\ l.root  -> "etc"
    [] l.envfile = Unset /\ ~l.root -> "dotenv"

\* The first of the candidates that exists, or Unset.
FirstExisting(l) ==
  LET fs    == env_file_candidates(l)
      found == {i \in DOMAIN fs : file[fs[i]] # Unset}
  IN  IF found = {} THEN Unset ELSE fs[Min(found)]

config_present(env) == env["DOMAIN"] \notin {Unset, Empty}

\* MUTANT: the keys the answers do not touch are missing.
render_env_touched(a, f) ==
  [v \in {"DOMAIN", "PAY_MODE"} |-> IF v = "DOMAIN" THEN a.domain ELSE a.mode]

\* The url is derived from the domain, port and all.
render_env(a, f) ==
  LET OnlyIf(c, value) == IF c THEN value ELSE Unset
      paid == a.mode # "off"
  IN [NoVars EXCEPT
        !["DOMAIN"]      = a.domain,
        !["BASE_URL"]    = [https |-> TRUE, host |-> a.domain],
        !["PAY_MODE"]    = a.mode,
        !["NAME_PRICE"]  = OnlyIf(a.mode = "name", a.price),
        !["WRITE_PRICE"] = OnlyIf(a.mode = "write", a.price),
        !["URL"]         = OnlyIf(paid, "goblinpay"),
        !["TOKEN_FILE"]  = OnlyIf(paid, secrets_dir_for(f)),
        !["TRANSFERS"]   = OnlyIf(a.transfers, TRUE),
        !["NODE_URL"]    = OnlyIf(a.transfers, "node")]

\* Unset is a value apart, and so are the empty string and the credential.
ASSUME UnsetAssumption ==
  /\ Unset \notin Paths \cup Places \cup PayModes
                  \cup {"goblinpay", "node", Empty, Credential}
  /\ Unset # TRUE /\ Unset # NoVars /\ Unset \notin AnswerSets
  /\ \A a \in AnswerSets :
       /\ Unset # [https |-> TRUE, host |-> a.domain]
       /\ \A private \in BOOLEAN : Unset # [token |-> a.token, private |-> private]
       /\ \A f \in Paths : Unset # render_env(a, f)
  /\ Unset \notin [private : BOOLEAN, root : BOOLEAN]
  /\ Empty # Credential
  /\ {Empty, Credential} \cap (Places \cup {"goblinpay", "node"}) = {}

-----------------------------------------------------------------------------
(* Config::from_env and validate, for a process p with its environment. *)

Get(env, v, default) == IF env[v] = Unset THEN default ELSE env[v]

\* Whether process x, launched as l, gets at the secrets in d: root does, and so
\* does a user at the terminal in a directory that root did not make. The
\* dynamic user of the service does nowhere.
MayUse(x, l, d) ==
  \/ l.root
  \/ x = "operator" /\ d # "etc" /\ (dir[d] # Unset => ~dir[d].root)

\* What may become of reading the token. A read that is permitted may fail all
\* the same: the device, or another owner of the file.
TokenRead(x, env) ==
  LET d == env["TOKEN_FILE"] IN
  CASE d \in {Unset, Empty} -> {"read"}
    [] d = Credential       -> {"read", "failed"}
    [] d \in Places /\ ~MayUse(x, proc[x].l, d) -> {"denied"}
    [] d \in Places /\ MayUse(x, proc[x].l, d) ->
         IF secret[d] = Unset THEN {"missing"} ELSE {"read", "failed"}

TokenOf(x, env) ==
  LET d == env["TOKEN_FILE"] IN
  CASE d \in {Unset, Empty} -> Get(env, "TOKEN", Empty)
    [] d = Credential       -> proc[x].credential
    [] OTHER                -> secret[d].token

ZeroGrin == [whole |-> <<0>>, frac |-> <<>>, junk |-> FALSE]

Config(x, env) ==
  [domain      |-> Get(env, "DOMAIN", Placeholder),
   base_url    |-> Get(env, "BASE_URL", [https |-> TRUE, host |-> Placeholder]),
   pay_mode    |-> Get(env, "PAY_MODE", "off"),
   name_price  |-> grin_to_nanogrin(Get(env, "NAME_PRICE", ZeroGrin)),
   write_price |-> grin_to_nanogrin(Get(env, "WRITE_PRICE", ZeroGrin)),
   url         |-> Get(env, "URL", Empty),
   token       |-> TokenOf(x, env),
   transfers   |-> Get(env, "TRANSFERS", FALSE),
   node_url    |-> Get(env, "NODE_URL", Empty)]

\* The host of the url is compared without its port.
HostBare(url) == [name |-> url.host.name, port |-> FALSE]

Valid(c) ==
  /\ c.pay_mode \in PayModes
  /\ c.name_price # Invalid /\ c.write_price # Invalid
  /\ c.domain # Empty
  /\ c.base_url.https /\ HostBare(c.base_url) = c.domain
  /\ c.pay_mode # "off" => c.url # Empty /\ c.token # Empty
  /\ c.pay_mode = "name" => c.name_price # 0
  /\ c.pay_mode = "write" => c.write_price # 0
  /\ c.transfers => c.node_url # Empty

Price(c) == IF c.pay_mode = "name" THEN c.name_price ELSE c.write_price

-----------------------------------------------------------------------------
(* Launches *)

Process(l, env, credential, src) ==
  [pc |-> "load", l |-> l, bare |-> env = NoVars, blind |-> FALSE, env |-> env,
   credential |-> credential,
   src |-> src, from |-> IF src = Unset THEN Unset ELSE finished[src],
   tries |-> 0, mode |-> "off", ans |-> Unset]

Launch(l, env) ==
  /\ proc["operator"].pc \in {"none", "done", "failed", "misconfigured"}
  /\ launches < MaxLaunches
  /\ launches' = launches + 1
  /\ proc' = [proc EXCEPT !["operator"] = Process(l, env, Unset, Unset)]
  /\ UNCHANGED <<file, secret, dir, dropin, finished, settled>>

\* The environment the unit gives the service: what EnvironmentFile= reads
\* overrides Environment=, as systemd.exec(5) has it.
UnitEnvironment ==
  Layer(file["etc"],
        [NoVars EXCEPT !["TOKEN_FILE"] = IF dropin THEN Credential ELSE Unset])

\* systemd starts the service, or starts it again. EnvironmentFile= and the
\* source of LoadCredential= must exist.
StartService ==
  /\ proc["systemd"].pc \in {"none", "failed", "misconfigured"}
  /\ file["etc"] # Unset
  /\ dropin => secret["etc"] # Unset
  /\ LET credential == IF dropin THEN secret["etc"].token ELSE Unset IN
     proc' = [proc EXCEPT !["systemd"] =
                Process(ServiceLaunch, UnitEnvironment, credential, "etc")]
  /\ UNCHANGED <<disk, finished, settled>>

\* install.sh, once /etc/floonet-authority.env names a token file.
InstallDropin ==
  /\ file["etc"] # Unset /\ file["etc"]["TOKEN_FILE"] # Unset /\ ~dropin
  /\ dropin' = TRUE
  /\ UNCHANGED <<file, secret, dir, proc, launches, finished, settled>>

\* The environment of p after load_env_file(f).
Loaded(p, f) == [p EXCEPT !.env = Layer(p.env, file[f]),
                          !.src = f, !.from = finished[f]]

\* load_first_existing. What the unit has set already comes from the file it
\* read. A file that exists and cannot be read, or is no text, counts as loaded:
\* the process goes on blind, and no other candidate is tried.
LoadFirstExisting(x) ==
  LET p == proc[x]
      f == FirstExisting(p.l)
      after == CASE f = Unset -> p
                 [] f # Unset /\ p.src = Unset -> Loaded(p, f)
                 [] OTHER -> [p EXCEPT !.env = Layer(p.env, file[f]),
                                       !.from = Source(p)]
  IN
  /\ p.pc = "load"
  /\ \/ proc' = [proc EXCEPT ![x] = [after EXCEPT !.pc = "decide"]]
     \/ /\ f # Unset
        /\ proc' = [proc EXCEPT ![x] = [p EXCEPT !.pc = "decide", !.blind = TRUE]]
  /\ UNCHANGED <<disk, finished, settled>>

\* MUTANT: the setup subcommand does not look for a configuration.
DecideBlindly(x) ==
  LET p == proc[x] IN
  /\ p.pc = "decide"
  /\ CASE p.l.command = "serve"              -> Goto(x, "configure")
       [] p.l.command # "serve" /\ ~p.l.tty -> Exit(x, "failed")
       [] OTHER                             -> Goto(x, "wiz_mode")
  /\ UNCHANGED <<disk, finished, settled>>

\* decide_wizard, and the guards of the setup subcommand.
Decide(x) ==
  LET p == proc[x]
      present == config_present(p.env)
  IN
  /\ p.pc = "decide"
  /\ CASE p.l.command = "serve" /\ (present \/ ~p.l.tty) -> Goto(x, "configure")
       [] p.l.command = "setup" /\ present             -> Exit(x, "done")
       [] p.l.command # "serve" /\ ~p.l.tty            -> Exit(x, "failed")
       [] OTHER -> proc' = [proc EXCEPT ![x] = [p EXCEPT !.pc = "wiz_mode",
                                                         !.src = Unset,
                                                         !.from = Unset]]
  /\ UNCHANGED <<disk, finished, settled>>

\* from_env, then the database and the listener.
Configure(x) ==
  LET p == proc[x]
      c == Config(x, p.env)
      refused(fault) ==
        [pc |-> "misconfigured", l |-> p.l, bare |-> p.bare, blind |-> p.blind,
         src |-> p.src, from |-> Source(p), credential |-> p.credential,
         fault |-> fault]
      up == [pc |-> "running", l |-> p.l, bare |-> p.bare, blind |-> p.blind,
             from |-> Source(p), cfg |-> c]
  IN
  /\ p.pc = "configure"
  /\ \E fault \in TokenRead(x, p.env) :
       CASE fault # "read" ->
              proc' = [proc EXCEPT ![x] = refused(fault)] /\ UNCHANGED settled
         [] fault = "read" /\ ~Valid(c) ->
              proc' = [proc EXCEPT ![x] = refused("invalid")] /\ UNCHANGED settled
         [] fault = "read" /\ Valid(c) ->
              \/ /\ proc' = [proc EXCEPT ![x] = up]
                 /\ settled' = IF p.ans = Unset \/ ~p.bare \/ p.blind
                                 THEN settled ELSE [l |-> p.l, cfg |-> c]
              \/ Exit(x, "failed") /\ UNCHANGED settled
  /\ UNCHANGED <<disk, finished>>

-----------------------------------------------------------------------------
(* The wizard: the questions. The operator answers, or the stream ends and   *)
(* the defaults stand.                                                       *)

\* MUTANT: the question is asked until it is answered.
AskModeForever(x) ==
  /\ proc[x].pc = "wiz_mode"
  /\ \/ \E m \in PayModes :
          proc' = [proc EXCEPT ![x].pc = "wiz_rest", ![x].mode = m]
     \/ proc' = [proc EXCEPT ![x].tries = 1 - @]
  /\ UNCHANGED <<disk, finished, settled>>

\* prompt_choice: after the last answer that is no mode, the default.
AskMode(x) ==
  LET p == proc[x] IN
  /\ p.pc = "wiz_mode"
  /\ \/ \E m \in PayModes :
          proc' = [proc EXCEPT ![x] = [p EXCEPT !.pc = "wiz_rest", !.mode = m,
                                                !.tries = 0]]
     \/ /\ p.tries < MaxAsks - 1
        /\ proc' = [proc EXCEPT ![x].tries = @ + 1]
     \/ /\ p.tries = MaxAsks - 1
        /\ proc' = [proc EXCEPT ![x].pc = "wiz_rest", ![x].tries = 0]
  /\ UNCHANGED <<disk, finished, settled>>

AskRest(x) ==
  /\ proc[x].pc = "wiz_rest"
  /\ \E a \in AnswerSets :
       /\ a.mode = proc[x].mode
       /\ proc' = [proc EXCEPT ![x].ans = a,
                               ![x].pc = IF a.mode = "off" THEN "wiz_truncate"
                                                           ELSE "wiz_dir"]
  /\ UNCHANGED <<disk, finished, settled>>

-----------------------------------------------------------------------------
(* The wizard: the files beside and at its target. The operator runs one     *)
(* wizard at a time.                                                         *)

\* From its first change on, f is nobody's answers, and no launch is sure to
\* come up as it did.
Touched(f) ==
  /\ finished' = [finished EXCEPT ![f] = Unset]
  /\ settled' = Unset

\* The setups whose env file names the token in d.
NamesToken(f, d) ==
  /\ secrets_dir_for(f) = d
  /\ finished[f] # Unset /\ finished[f].mode # "off"

\* The token in d changes, under the setup of f and every other that names it.
TokenTouched(f, d) ==
  /\ finished' = [g \in Paths |->
                    IF g = f \/ NamesToken(g, d) THEN Unset ELSE finished[g]]
  /\ settled' = Unset

\* Where the operator's wizard keeps its token.
SecretsDir(x) == secrets_dir_for(wizard_target(proc[x].l))

WizardMayUse(x) == MayUse(x, proc[x].l, SecretsDir(x))

\* create_dir_all: a directory that exists is left as it is.
MakeSecretsDir(x) ==
  LET d == SecretsDir(x) IN
  /\ proc[x].pc = "wiz_dir"
  /\ dir[d] = Unset => WizardMayUse(x)
  /\ dir' = [dir EXCEPT ![d] = IF @ # Unset THEN @
                                ELSE [private |-> FALSE, root |-> proc[x].l.root]]
  /\ Goto(x, "wiz_dir_mode")
  /\ UNCHANGED <<file, secret, dropin, launches, finished, settled>>

\* MUTANT: the directory keeps the mode it was made with.
LeaveSecretsDir(x) ==
  /\ proc[x].pc = "wiz_dir_mode"
  /\ Goto(x, "wiz_remove")
  /\ UNCHANGED <<disk, finished, settled>>

\* The result is ignored; the owner of a directory can always change it.
ProtectSecretsDir(x) ==
  /\ proc[x].pc = "wiz_dir_mode"
  /\ dir' = IF WizardMayUse(x)
              THEN [dir EXCEPT ![SecretsDir(x)].private = TRUE] ELSE dir
  /\ Goto(x, "wiz_remove")
  /\ UNCHANGED <<file, secret, dropin, launches, finished, settled>>

\* write_secret_file removes the old token, if it can.
RemoveSecret(x) ==
  LET d == SecretsDir(x) IN
  /\ proc[x].pc = "wiz_remove"
  /\ \/ /\ WizardMayUse(x)
        /\ secret' = [secret EXCEPT ![d] = Unset]
        /\ TokenTouched(wizard_target(proc[x].l), d)
     \/ UNCHANGED <<secret, finished, settled>>
  /\ Goto(x, "wiz_token")
  /\ UNCHANGED <<file, dir, dropin, launches>>

\* MUTANT: a token that could not be removed is left as it is.
KeepSecret(x) ==
  LET d == SecretsDir(x) IN
  /\ proc[x].pc = "wiz_token"
  /\ WizardMayUse(x)
  /\ secret' = [secret EXCEPT ![d] =
                  IF @ = Unset THEN [token |-> proc[x].ans.token, private |-> FALSE]
                               ELSE @]
  /\ TokenTouched(wizard_target(proc[x].l), d)
  /\ Goto(x, "wiz_token_mode")
  /\ UNCHANGED <<file, dir, dropin, launches>>

\* A new file is readable by all, an old one keeps its mode.
WriteSecret(x) ==
  LET d == SecretsDir(x)
      private == secret[d] # Unset /\ secret[d].private
  IN
  /\ proc[x].pc = "wiz_token"
  /\ WizardMayUse(x)
  /\ secret' = [secret EXCEPT ![d] = [token   |-> proc[x].ans.token,
                                      private |-> private]]
  /\ TokenTouched(wizard_target(proc[x].l), d)
  /\ Goto(x, "wiz_token_mode")
  /\ UNCHANGED <<file, dir, dropin, launches>>

ProtectSecret(x) ==
  /\ proc[x].pc = "wiz_token_mode"
  /\ secret' = [secret EXCEPT ![SecretsDir(x)].private = TRUE]
  /\ Goto(x, "wiz_truncate")
  /\ UNCHANGED <<file, dir, dropin, launches, finished, settled>>

\* std::fs::write empties the file, then writes it. Whether a user may write a
\* file that root left outside /etc is left open.
TruncateEnvFile(x) ==
  LET f == wizard_target(proc[x].l) IN
  /\ proc[x].pc = "wiz_truncate"
  /\ secrets_dir_for(f) = "etc" => proc[x].l.root
  /\ file' = [file EXCEPT ![f] = NoVars]
  /\ Touched(f)
  /\ Goto(x, "wiz_write")
  /\ UNCHANGED <<secret, dir, dropin, launches>>

WriteEnvFile(x) ==
  LET p == proc[x]
      f == wizard_target(p.l)
  IN
  /\ p.pc = "wiz_write"
  /\ file' = [file EXCEPT ![f] = render_env(p.ans, f)]
  /\ finished' = [finished EXCEPT ![f] = p.ans]
  /\ IF p.l.command = "serve" THEN Goto(x, "reload") ELSE Exit(x, "done")
  /\ UNCHANGED <<secret, dir, dropin, launches, settled>>

\* main loads the file just written, over what it had loaded before.
Reload(x) ==
  LET p == proc[x] IN
  /\ p.pc = "reload"
  /\ proc' = [proc EXCEPT ![x] = [Loaded(p, wizard_target(p.l))
                                    EXCEPT !.pc = "configure"]]
  /\ UNCHANGED <<disk, finished, settled>>

\* An error of the terminal or of a file ends the process. Whatever was done
\* stays done.
Fail(x) ==
  /\ proc[x].pc \in (WizardPC \cup {"reload"}) \ {"wiz_dir_mode", "wiz_remove"}
  /\ Exit(x, "failed")
  /\ UNCHANGED <<disk, finished, settled>>

\* The process is killed, or a server is stopped.
Crash(x) ==
  /\ proc[x].pc \in StartPC \cup {"running"}
  /\ proc' = [proc EXCEPT ![x] = NoProc]
  /\ UNCHANGED <<disk, finished, settled>>

-----------------------------------------------------------------------------
\* install.sh makes the directory in /etc, private, before the wizard runs; by
\* hand the wizard makes it.
Init ==
  /\ file = [f \in Paths |-> Unset]
  /\ secret = [d \in Places |-> Unset]
  /\ dir = [d \in Places |-> Unset]
  /\ dropin = FALSE
  /\ proc = [x \in Procs |-> NoProc]
  /\ launches = 0
  /\ finished = [f \in Paths |-> Unset]
  /\ settled = Unset

Step(x) ==
  \/ LoadFirstExisting(x)
  \/ Decide(x)
  \/ AskMode(x)
  \/ AskRest(x)
  \/ MakeSecretsDir(x)
  \/ ProtectSecretsDir(x)
  \/ RemoveSecret(x)
  \/ WriteSecret(x)
  \/ ProtectSecret(x)
  \/ TruncateEnvFile(x)
  \/ WriteEnvFile(x)
  \/ Reload(x)
  \/ Configure(x)
  \/ Fail(x)

Next ==
  \/ \E s \in Starts : Launch(s.l, s.env)
  \/ StartService
  \/ InstallDropin
  \/ \E x \in Procs : Step(x) \/ Crash(x)

Spec == Init /\ [][Next]_vars

FairSpec == Spec /\ \A x \in Procs : WF_vars(Step(x))

-----------------------------------------------------------------------------
TypeOK ==
  /\ \A f \in Paths :
       /\ file[f] # Unset => DOMAIN file[f] = Vars
       /\ finished[f] \in AnswerSets \cup {Unset}
  /\ \A d \in Places :
       /\ secret[d] # Unset => secret[d].private \in BOOLEAN
       /\ dir[d] \in [private : BOOLEAN, root : BOOLEAN] \cup {Unset}
  /\ dropin \in BOOLEAN /\ launches \in 0 .. MaxLaunches
  /\ \A x \in Procs : proc[x].pc \in {"none"} \cup StartPC \cup EndPC
  /\ settled # Unset => settled.l \in Launches

IsPrivate(d) == dir[d] # Unset /\ dir[d].private

(* Nobody but its owner and that of its directory can read the token at any  *)
(* time: between the steps that write it, after any of them failed, after a  *)
(* crash, after another user's setup (README.md:360, setup.rs:325-330 and    *)
(* 403-415).                                                                 *)
TokenPrivate ==
  \A d \in Places : secret[d] # Unset => secret[d].private \/ IsPrivate(d)

(* After a setup has finished, and until a setup changes its env file or the *)
(* token it names, the files hold what was typed into it and nothing of a    *)
(* setup before it, finished or cut short at any step (setup.rs:307-357).    *)
SetupWhole ==
  \A f \in Paths : finished[f] # Unset =>
    /\ file[f] = render_env(finished[f], f)
    /\ finished[f].mode # "off"
         => secret[secrets_dir_for(f)].token = finished[f].token

\* Answers Config::validate accepts.
WellAnswered(a) ==
  /\ ~a.domain.port
  /\ a.mode # "off" => /\ a.token # Empty
                       /\ grin_to_nanogrin(a.price) \notin {Invalid, 0}

\* c is what was typed, the price to the nanogrin, and shown as typed.
Fits(c, a) ==
  /\ c.domain = a.domain /\ c.pay_mode = a.mode /\ c.transfers = a.transfers
  /\ a.mode # "off" => /\ c.token = a.token
                       /\ Exact(Price(c), a.price)
                       /\ Exact(Price(c), nanogrin_to_grin(Price(c)))

(* A process that found the files of one finished setup, and nothing in its  *)
(* own environment, runs on exactly the answers of that setup, its token     *)
(* included, also where setups share a token file, and does not start only   *)
(* for a reason the answers give or because the token was not to be read     *)
(* (setup.rs:188-228, config.rs:178-353).                                    *)
AnswersTakeEffect ==
  \A x \in Procs :
    LET p == proc[x] IN
    p.pc \in {"running", "misconfigured"} /\ p.from # Unset /\ (p.bare \/ x = "systemd") =>
      IF p.pc = "running"
        THEN Fits(p.cfg, p.from)
        ELSE WellAnswered(p.from) => p.fault \in {"denied", "failed"}

AllWhole == \A f \in Paths : file[f] # Unset => finished[f] # Unset

(* A launch that asked its questions and came up asks none the next time and *)
(* comes up the same, or a read of the token fails, as long as no setup      *)
(* touches a file, every env file there is one that a setup finished, and    *)
(* the env file could be read (setup.rs:21-22).                              *)
FirstRunThenSame ==
  LET p == proc["operator"] IN
  (/\ p.pc \in WizardPC \cup {"misconfigured", "running"}
   /\ p.bare /\ ~p.blind /\ AllWhole /\ settled # Unset /\ settled.l = p.l)
  => \/ p.pc = "running" /\ p.cfg = settled.cfg
     \/ p.pc = "misconfigured" /\ p.fault = "failed"

(* Only a reconfiguration takes apart the setup its own env file belongs to, *)
(* as long as no other env file is in the way and the env file could be read *)
(* (main.rs:93-97, README.md:36).                                            *)
NeverClobbers ==
  [][LET p == proc["operator"] IN
     \A f \in Paths : finished[f] # Unset /\ finished'[f] = Unset /\ AllWhole
       => p.l.command = "reconfigure" \/ p.blind \/ f # wizard_target(p.l)]_vars

(* Every launch comes up or ends, whatever is typed, as long as the operator *)
(* types or the stream ends (setup.rs:421-424).                              *)
StartupSettles ==
  \A x \in Procs : proc[x].pc \in StartPC ~> proc[x].pc \notin StartPC

-----------------------------------------------------------------------------
(* What the documentation says and the code does not keep.                   *)

(* floonet-authority.service:28-29: the service of a paid authority reads    *)
(* the credential, so it starts on answers that are in order.                *)
PaidServiceStarts ==
  LET p == proc["systemd"] IN
  p.pc = "misconfigured" /\ p.from # Unset /\ p.credential # Unset
      /\ p.fault # "failed"
    => ~WellAnswered(p.from)

(* main.rs:94-95, README.md:36: setup never clobbers an existing config      *)
(* unless --reconfigure is given.                                            *)
ConfigKept ==
  [][\A f \in Paths : finished[f] # Unset /\ finished'[f] = Unset
       => proc["operator"].l.command = "reconfigure"]_vars

(* main.rs:95-97: the overwrite of its env file is the only destructive step *)
(* of the wizard, so a setup takes no other setup apart.                     *)
SetupsApart ==
  [][\A f \in Paths : finished[f] # Unset /\ finished'[f] = Unset
       => f = wizard_target(proc["operator"].l)]_vars

(* setup.rs:21-22: on the next run the file is found and the wizard stays    *)
(* out of the way, whatever other files there are.                           *)
WizardStaysAway ==
  LET p == proc["operator"] IN
  p.pc \in WizardPC /\ p.bare /\ ~p.blind => settled = Unset \/ settled.l # p.l

(* setup.rs:188-190: what the wizard writes always satisfies validate.       *)
WizardValidates ==
  LET p == proc["operator"] IN
  p.pc = "misconfigured" /\ p.from # Unset /\ p.fault = "invalid"
    => p.from.mode # "off" /\ p.from.token = Empty

=============================================================================
