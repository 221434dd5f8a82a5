------------------------------- MODULE MCInbox -------------------------------
(* A small instance of Inbox.                                              *)
EXTENDS Inbox

CONSTANTS k1

\* One keyed follow-up next to unkeyed messages of every kind.
MCSubmissions == {<<"next-step", NoKey>>, <<"steering", NoKey>>, <<"next-turn", k1>>,
                  <<"next-turn", NoKey>>, <<"quiet-injection", NoKey>>}
=============================================================================
