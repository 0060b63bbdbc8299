----------------------------- MODULE MCServiceHost -----------------------------
(* The service, and an instance started by hand next to it. *)
EXTENDS ServiceHost

CONSTANTS service, console

MCWriters == {service, console}
Starts(s, c) == [p \in MCWriters |-> IF p = service THEN s ELSE c]

\* The service is installed, crashes and comes back, and is removed; or it is
\* installed already, and an instance is started next to it.
MCSituations == { [starts |-> Starts(2, 0), installs |-> TRUE],
                  [starts |-> Starts(1, 1), installs |-> FALSE] }
=============================================================================
