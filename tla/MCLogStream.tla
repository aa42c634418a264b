------------------------------ MODULE MCLogStream ------------------------------
(****************************************************************************)
(* Values for the constants of LogStream.                                   *)
(****************************************************************************)
EXTENDS LogStream

\* The line store, the broker, the database, the worker and one pool process
\* of it may fail.
AllStreamFaults == {"influx", "amqp", "db", "crash", "kill"}
================================================================================
