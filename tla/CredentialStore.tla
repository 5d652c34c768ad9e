---------------------------- MODULE CredentialStore ----------------------------
(* What the store promises to whoever has the master password.  Each name has  *)
(* at most one credential, ever; a credential has a value, and the values it   *)
(* has been given before are kept behind it; another password changes none of  *)
(* it.                                                                         *)
EXTENDS Sequences

CONSTANTS Creds, Values, NoKey, Nothing

VARIABLES master,  \* what the password derives, NoKey before there is one
          status,  \* of each credential: absent, live, deleted, lost
          value,   \* what it decrypts to
          past,    \* what its history decrypts to, oldest first
          had      \* the values it has been given

Init == /\ master = NoKey
        /\ status = [c \in Creds |-> "absent"]
        /\ value = [c \in Creds |-> Nothing]
        /\ past = [c \in Creds |-> <<>>]
        /\ had = [c \in Creds |-> {}]

SetPassword == /\ master' # NoKey
               /\ UNCHANGED <<status, value, past, had>>

Create(c, v) == /\ status[c] = "absent"
                /\ status' = [status EXCEPT ![c] = "live"]
                /\ value' = [value EXCEPT ![c] = v]
                /\ had' = [had EXCEPT ![c] = @ \union {v}]
                /\ UNCHANGED <<master, past>>

\* A value the credential has had is recorded: the one replaced, unless two
\* updates overlap, whose records are then of the value both have found.
Replace(c, v, old) == /\ status[c] = "live" /\ old \in had[c]
                      /\ value' = [value EXCEPT ![c] = v]
                      /\ past' = [past EXCEPT ![c] = Append(@, old)]
                      /\ had' = [had EXCEPT ![c] = @ \union {v}]
                      /\ UNCHANGED <<master, status>>

Delete(c) == /\ status[c] = "live"
             /\ status' = [status EXCEPT ![c] = "deleted"]
             /\ value' = [value EXCEPT ![c] = Nothing]
             /\ past' = [past EXCEPT ![c] = <<>>]
             /\ had' = [had EXCEPT ![c] = {}]
             /\ UNCHANGED master

Lose(c) == /\ status[c] # "lost"
           /\ status' = [status EXCEPT ![c] = "lost"]
           /\ value' = [value EXCEPT ![c] = Nothing]
           /\ past' = [past EXCEPT ![c] = <<>>]
           /\ had' = [had EXCEPT ![c] = {}]
           /\ UNCHANGED master

Next == \/ SetPassword
        \/ /\ master # NoKey
           /\ \E c \in Creds : \/ \E v \in Values : Create(c, v) \/ \E old \in Values : Replace(c, v, old)
                             \/ Delete(c) \/ Lose(c)

Spec == Init /\ [][Next]_<<master, status, value, past, had>>
================================================================================
