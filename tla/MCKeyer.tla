------------------------------ MODULE MCKeyer ------------------------------
(***************************************************************************)
(* Values of the constants of Keyer for TLC: sets of requests, each chosen *)
(* for the question its run asks.                                          *)
(***************************************************************************)
EXTENDS KeyerClaims, KeyerRefinement, TLC

Say(t)      == [kind |-> "text", arg |-> 0, text |-> t]
ReplyReq(t) == [kind |-> "reply", arg |-> 0, text |-> t]
Esc(k, n)   == [kind |-> k, arg |-> n, text |-> <<>>]

Texts == {Say(<<"e">>), Say(<<"e", "^">>)}
Handlers == {ReplyReq(<<"t">>), Esc("ptt", 0), Esc("ptt", 1), Esc("tune", 1),
             Esc("abort", 0), Esc("reset", 0), Esc("wordmode", 0)}
Delays == {Esc("delay", 0), Esc("delay", 1), Esc("delay", 9)}

AllRequests == Texts \cup Handlers \cup Delays
  \cup {Esc("exit", 0), Esc("tune", 0), Say(<<"~", "+", "*", "bad", "^">>)}

\* Everything that asks for a reply or for PTT, or ends it, but <ESC>a0 and
\* <ESC>d, which forget a reply.
LiveRequests == Texts \cup (Handlers \ {Esc("ptt", 0)})

\* One set for each run that shows what the code does not do.
CaretTwice    == {Say(<<"e", "^">>)}
NothingToPlay == {Say(<<"bad">>)}
ReplyAndPtt   == {Say(<<"e">>), ReplyReq(<<"t">>), Esc("ptt", 0), Esc("ptt", 1)}

ClientSymmetry == Permutations(Clients)
=============================================================================
