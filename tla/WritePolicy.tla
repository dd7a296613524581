----------------------------- MODULE WritePolicy -----------------------------
(***************************************************************************)
(* The write-policy plugin of the relay (plugin/floonet_writepolicy.py).   *)
(* strfry sends one request at a time and waits for the reply: the static  *)
(* checks, then in paid mode the cached or fetched verdict of the          *)
(* authority. PaidAccess puts the authority behind the lookups.            *)
(***************************************************************************)
EXTENDS Naturals, Sequences

CONSTANTS
  Events,     \* events clients publish [kind, author, tags]
  Keys,       \* public keys
  None,
  Authors,    \* FLOONET_AUTHORIZED_AUTHORS
  RequireAuth, \* FLOONET_REQUIRE_AUTH
  PayMode,    \* FLOONET_PAY_MODE
  CacheSecs,  \* FLOONET_PAID_CACHE_SECS
  FailSecs    \* seconds a failed lookup is cached at most

\* The kinds the checks tell apart: 1059, 1 and 30023, other whitelisted
\* ones, and the rest (not whitelisted, or no integer).
Kinds == {"wrap", "note", "plain", "denied"}

\* A tag by its first element and its second: none, 64 lowercase hex digits,
\* those digits and a newline, or anything else.
Tag == [name : {"p", "expiration", "other"},
        value : {"none", "hex", "hex_newline", "other"}]

VARIABLES
  cache,      \* _paid_cache: the verdict on p and the seconds it is good for
  req,        \* the request waiting for a lookup, its age in seconds and the
              \* answer so far, or NoRequest
  out         \* what the last step replied, or NoReply

NotCached == [paid |-> FALSE, left |-> 0]
NoRequest == [event |-> None, authed |-> None, age |-> 0, answer |-> "none"]
NoReply   == [event |-> None, authed |-> None, msg |-> "none"]

-----------------------------------------------------------------------------
(* The static checks, in the order of CHECKS; each holds when it passes. *)

TagsOf(ev) == {ev.tags[i] : i \in 1 .. Len(ev.tags)}

CheckKind(ev) == ev.kind # "denied"

CheckGiftwrapExpiration(ev) ==
  ev.kind = "wrap" => \A tag \in TagsOf(ev) : tag.name # "expiration"

\* The p tags that have a value.
Recipients(ev) == {i \in 1 .. Len(ev.tags) :
                     ev.tags[i].name = "p" /\ ev.tags[i].value # "none"}

\* One recipient whose value the pattern ^[0-9a-f]{64}$ matches: "$" also
\* matches before a final newline.
CheckGiftwrapRecipient(ev) ==
  ev.kind = "wrap" =>
    \E i \in Recipients(ev) :
      Recipients(ev) = {i} /\ ev.tags[i].value \in {"hex", "hex_newline"}

CheckGiftwrapTags(ev) ==
  ev.kind = "wrap" => \A tag \in TagsOf(ev) : tag.name = "p"

CheckAuthorizedAuthors(ev) == ev.kind = "note" => ev.author \in Authors

Admissible(ev) ==
  /\ CheckKind(ev)
  /\ CheckGiftwrapExpiration(ev)
  /\ CheckGiftwrapRecipient(ev)
  /\ CheckGiftwrapTags(ev)
  /\ CheckAuthorizedAuthors(ev)

-----------------------------------------------------------------------------
(* decide and check_paid. *)

Reply(ev, p, msg) == out' = [event |-> ev, authed |-> p, msg |-> msg]

\* check_auth and the first test of check_paid. None stands for a connection
\* that has not completed NIP-42 AUTH.
CheckAuth(p) == RequireAuth \/ PayMode = "write" => p # None

Cached(p) == cache[p].left > 0

\* Without write payment every publisher passes; with it, one that has a
\* cached verdict gets that.
VerdictKnown(p) == PayMode = "write" => Cached(p)

PaidGate(p) == PayMode = "write" => cache[p].paid

Verdict(holds) == IF holds THEN "accepted" ELSE "payment required"

\* Requests that are answered at once.
Decide(ev, p) ==
  /\ req = NoRequest
  /\ \/ ~Admissible(ev) /\ Reply(ev, p, "blocked")
     \/ Admissible(ev) /\ ~CheckAuth(p) /\ Reply(ev, p, "auth-required")
     \/ Admissible(ev) /\ CheckAuth(p) /\ VerdictKnown(p)
          /\ Reply(ev, p, Verdict(PaidGate(p)))
  /\ UNCHANGED <<cache, req>>

StartLookup(ev, p) ==
  /\ req = NoRequest
  /\ Admissible(ev) /\ CheckAuth(p) /\ ~VerdictKnown(p)
  /\ req' = [event |-> ev, authed |-> p, age |-> 0, answer |-> "unread"]
  /\ out' = NoReply
  /\ UNCHANGED cache

Less(a, b) == IF a > b THEN a - b ELSE 0

\* The time of the entry counts from before the lookup.
Remember(p, holds, secs) ==
  cache' = [cache EXCEPT ![p] = [paid |-> holds, left |-> Less(secs, req.age)]]

LookupAnswered ==
  LET holds == req.answer = "yes" IN
  /\ req.answer \in {"yes", "no"}
  /\ Remember(req.authed, holds, CacheSecs)
  /\ Reply(req.event, req.authed, Verdict(holds))
  /\ req' = NoRequest

\* MUTANT: the verdict of an expired entry is used again while the authority
\* cannot be reached.
LookupFailsStale ==
  LET p == req.authed IN
  /\ req # NoRequest
  /\ Reply(req.event, p, Verdict(cache[p].paid))
  /\ req' = NoRequest
  /\ UNCHANGED cache

MinOf(a, b) == IF a < b THEN a ELSE b

\* MUTANT: a failed lookup is cached like a verdict.
LookupFailsForLong ==
  LET p == req.authed IN
  /\ req # NoRequest
  /\ Remember(p, FALSE, CacheSecs)
  /\ Reply(req.event, p, "payment status unavailable")
  /\ req' = NoRequest

\* No answer, or one that is not understood: rejected, and for a short time
\* without asking again.
LookupFails ==
  LET p == req.authed IN
  /\ req # NoRequest
  /\ Remember(p, FALSE, MinOf(CacheSecs, FailSecs))
  /\ Reply(req.event, p, "payment status unavailable")
  /\ req' = NoRequest

\* strfry starts the plugin again when its file was touched.
Reload ==
  /\ req = NoRequest
  /\ cache' = [p \in Keys |-> NotCached]
  /\ out' = NoReply
  /\ UNCHANGED req

\* time.monotonic
SecondPasses ==
  /\ cache' = [p \in Keys |-> [cache[p] EXCEPT !.left = Less(@, 1)]]
  /\ req' = IF req = NoRequest THEN req ELSE [req EXCEPT !.age = @ + 1]
  /\ out' = NoReply

PolicyInit ==
  /\ cache = [p \in Keys |-> NotCached]
  /\ req = NoRequest
  /\ out = NoReply

-----------------------------------------------------------------------------
Accepted == out.msg = "accepted"

(* What the documentation says and the code does not keep.                   *)

(* floonet_writepolicy.py:20-26 and 144: a recipient is 64 lowercase hex     *)
(* digits, anchored at both ends.                                            *)
RecipientIsHex ==
  Accepted /\ out.event.kind = "wrap" =>
    \A i \in Recipients(out.event) : out.event.tags[i].value = "hex"

(* floonet_writepolicy.py:26-30 and 409-413: any tag other than the single p *)
(* tag is rejected, so that a gift wrap has exactly one.                     *)
WrapHasOneTag ==
  Accepted /\ out.event.kind = "wrap" => Len(out.event.tags) = 1

=============================================================================
