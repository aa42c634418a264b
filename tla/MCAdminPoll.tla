----------------------------- MODULE MCAdminPoll -----------------------------
(****************************************************************************)
(* Values for the constants of AdminPoll.                                   *)
(****************************************************************************)
EXTENDS AdminPoll

\* The broker connection, the dispatch, a reply's body, a report and a worker may
\* fail.
AllPollFaults == {"amqp", "send", "body", "report", "crash"}
==============================================================================
