---------------------------- MODULE FixedWindow ----------------------------
(***************************************************************************)
(* What a RateLimiter promises: a client opens a window with a request,    *)
(* is served Limit times while the window is open, is refused only when it *)
(* has been served that often, and the window closes by itself.  Nothing   *)
(* is ever forgotten or cleaned up.                                        *)
(***************************************************************************)
EXTENDS Naturals

CONSTANTS
  IPs,     \* clients
  Limit,   \* requests served in a window
  Window,  \* length of a window
  Closed   \* the absence of a window

VARIABLES
  time,    \* the clock
  window,  \* the open window of each client: its start and the requests served
  verdict  \* the last answer

fvars == <<time, window, verdict>>

Init ==
  /\ time = 0
  /\ window = [ip \in IPs |-> Closed]
  /\ verdict = Closed

\* The clock advances, and windows close on time.
Pass ==
  /\ time' \in Nat
  /\ time' > time
  /\ window' = [ip \in IPs |->
                  IF window[ip] # Closed /\ time' >= window[ip].start + Window
                    THEN Closed
                    ELSE window[ip]]
  /\ UNCHANGED verdict

Serve(ip) ==
  /\ \/ /\ window[ip] = Closed
        /\ window' = [window EXCEPT ![ip] = [count |-> 1, start |-> time]]
     \/ /\ window[ip] # Closed
        /\ window[ip].count < Limit
        /\ window' = [window EXCEPT ![ip].count = @ + 1]
  /\ verdict' = [ip |-> ip, allowed |-> TRUE]
  /\ UNCHANGED time

Refuse(ip) ==
  /\ window[ip] # Closed
  /\ window[ip].count = Limit
  /\ verdict' = [ip |-> ip, allowed |-> FALSE]
  /\ UNCHANGED <<time, window>>

Next == Pass \/ \E ip \in IPs : Serve(ip) \/ Refuse(ip)

Spec == Init /\ [][Next]_fvars
=============================================================================
