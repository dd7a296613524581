----------------------------- MODULE MCStartup -----------------------------
(***************************************************************************)
(* Finite instances of Startup for TLC.                                    *)
(***************************************************************************)
EXTENDS Startup

CONSTANTS t1, t2    \* tokens

Site(name, port) == [name |-> name, port |-> port]

Grin(whole, frac) == [whole |-> whole, frac |-> frac, junk |-> FALSE]

Answer(name, port, mode, price, token, transfers) ==
  [domain |-> Site(name, port), mode |-> mode, price |-> price,
   token |-> token, transfers |-> transfers]

Example == Site("floonet.example", FALSE)

One == Grin(<<1>>, <<>>)

\* Free and paid, prices with a zero after the dot and with places missing.
Typed ==
  {Answer("a", FALSE, "off", One, Empty, TRUE),
   Answer("a", FALSE, "name", Grin(<<2>>, <<0, 5>>), t1, FALSE),
   Answer("b", FALSE, "write", Grin(<<>>, <<5>>), t2, FALSE)}

\* A domain with its port, a price that fits no u64, a token left blank.
Mistyped ==
  {Answer("a", TRUE, "off", One, Empty, FALSE),
   Answer("b", FALSE, "name", Grin(<<9, 9>>, <<>>), t1, FALSE),
   Answer("b", FALSE, "write", One, Empty, FALSE)}

By(command, root, envfile, env) ==
  [l |-> [command |-> command, root |-> root, tty |-> env = NoVars,
          envfile |-> envfile],
   env |-> env]

Compose == [NoVars EXCEPT !["DOMAIN"] = Example,
                          !["PAY_MODE"] = "name",
                          !["NAME_PRICE"] = One,
                          !["URL"] = "goblinpay",
                          !["TOKEN"] = t1]

\* A user and root at a terminal, and docker compose, which sets variables.
Hands ==
  {By("serve", FALSE, Unset, NoVars), By("setup", FALSE, Unset, NoVars),
   By("reconfigure", TRUE, Unset, NoVars), By("serve", TRUE, Unset, Compose)}

\* Root sets up a second authority as well, with an env file of its own in the
\* same directory.
Neighbours == Hands \cup {By("reconfigure", TRUE, "custom", NoVars)}

\* A user who runs the setup subcommand, and runs it again.
SetupAgain == {By("setup", FALSE, Unset, NoVars)}

\* A user who sets up two authorities in one directory.
TwoSetups ==
  {By("setup", FALSE, Unset, NoVars), By("setup", FALSE, "custom", NoVars)}

\* A user at a terminal whose environment sets FLOONET_DOMAIN to nothing, the
\* first time or later.
Hollow ==
  {[l |-> [command |-> "setup", root |-> FALSE, tty |-> TRUE, envfile |-> Unset],
    env |-> env] : env \in {NoVars, [NoVars EXCEPT !["DOMAIN"] = Empty]}}

\* install.sh, which names the file, and the service after it.
Installer == {By("setup", TRUE, "etc", NoVars)}

=============================================================================
