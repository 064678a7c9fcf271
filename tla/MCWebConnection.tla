-------------------------- MODULE MCWebConnection ---------------------------
(* WebConnection for TLC: the constants are given by the configurations.   *)
EXTENDS WebConnection

\* The requests that leave the connection open, and those that are streamed.
MCButLast == 1..(Last - 1)
\* Every request may be rejected, or ask for another protocol.
MCBad == Requests
\* The handler that asks for its body, with a request before and one after it.
MCSecond == {2}
=============================================================================
