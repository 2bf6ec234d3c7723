-------------------------------- MODULE Des ---------------------------------
(***************************************************************************)
(* The network of hlibc/crypto/des.c: des_init, des_encrypt, des_decrypt,  *)
(* one of their unrolled lines per step.  The round function, the          *)
(* exclusive or of two halves and the initial permutation are constants,   *)
(* of which only what makes decryption the inverse of encryption is        *)
(* assumed; DesTables shows it of the permutation.                         *)
(***************************************************************************)
EXTENDS Integers

CONSTANTS
  Rounds,        \* 16
  Halves,        \* the values of 32 bits
  Blocks,        \* the values of 64 bits
  RoundKeys,     \* the values of ks[i]
  Schedules,     \* the schedules that keys are expanded to
  F,             \* f of des.c: a half and a round key to a half
  XorHalf,       \* ^ on halves
  IP, IP_inv     \* from a block to its halves, and back

Pairs == Halves \X Halves

ASSUME RoundsAssumption == Rounds \in Nat \ {0} /\ Rounds % 2 = 0
ASSUME SchedulesAssumption == Schedules \subseteq [0..Rounds - 1 -> RoundKeys]
ASSUME FAssumption == F \in [Halves \X RoundKeys -> Halves]
ASSUME XorAssumption ==
  /\ XorHalf \in [Pairs -> Halves]
  /\ \A a, b \in Halves : XorHalf[XorHalf[a, b], b] = a
ASSUME IPAssumption ==
  /\ IP \in [Blocks -> Pairs] /\ IP_inv \in [Pairs -> Blocks]
  /\ \A p \in Pairs : IP[IP_inv[p]] = p
  /\ \A b \in Blocks : IP_inv[IP[b]] = b

VARIABLES
  call,          \* "idle", or the call that runs: "encrypt" or "decrypt"
  ks,            \* ctx->ks
  i,             \* lines of the unrolled rounds done
  L, R,
  block,         \* the argument of the call
  plain, cipher, \* ghosts: the last encryption
  sealed,        \* ghost: whether it was made under this schedule, and is over
  trace          \* ghost: the halves before it and after each of its rounds
ghosts == <<plain, cipher, sealed, trace>>
vars == <<call, ks, i, L, R, block, ghosts>>

-----------------------------------------------------------------------------
\* Line n of the rounds: L ^= f(R, key) and R ^= f(L, key) in turn.
Mixed(n, p, key) ==
  IF n % 2 = 0 THEN <<XorHalf[p[1], F[p[2], key]], p[2]>>
               ELSE <<p[1], XorHalf[p[2], F[p[1], key]]>>

\* IP_inv((R << 32) | L): the halves have changed places.
Joined(l, r) == IP_inv[<<r, l>>]

Init ==
  /\ call = "idle" /\ i = 0 /\ sealed = FALSE
  /\ ks \in Schedules
  /\ \E b \in Blocks : /\ block = b /\ plain = b /\ cipher = b
                       /\ L = IP[b][1] /\ R = IP[b][2]
                       /\ trace = [n \in 0..Rounds |-> IP[b]]

\* des_init, on a context that may have been in use.
DesInit(schedule) ==
  /\ call = "idle"
  /\ ks' = schedule /\ sealed' = FALSE
  /\ UNCHANGED <<call, i, L, R, block, plain, cipher, trace>>

Enter(which, b) ==
  /\ call = "idle" /\ call' = which
  /\ i' = 0 /\ block' = b
  /\ L' = IP[b][1] /\ R' = IP[b][2]
  /\ UNCHANGED ks

Encrypt(b) ==
  /\ Enter("encrypt", b)
  /\ plain' = b /\ cipher' = b /\ sealed' = FALSE
  /\ trace' = [n \in 0..Rounds |-> IP[b]]

\* The caller decrypts what it has encrypted, or any other block.
Decrypt(b) == Enter("decrypt", b) /\ UNCHANGED ghosts

EncryptRound ==
  /\ call = "encrypt" /\ i < Rounds
  /\ LET p == Mixed(i, <<L, R>>, ks[i])
     IN /\ L' = p[1] /\ R' = p[2]
        /\ trace' = [trace EXCEPT ![i + 1] = p]
  /\ i' = i + 1
  /\ UNCHANGED <<call, ks, block, plain, cipher, sealed>>

\* Mutant of DecryptRound: the keys are taken in the order of encryption.
DecryptRoundForward ==
  /\ call = "decrypt" /\ i < Rounds
  /\ LET p == Mixed(i, <<L, R>>, ks[i])
     IN L' = p[1] /\ R' = p[2]
  /\ i' = i + 1
  /\ UNCHANGED <<call, ks, block, ghosts>>

\* The same lines as in encryption with the keys in reverse.
DecryptRound ==
  /\ call = "decrypt" /\ i < Rounds
  /\ LET p == Mixed(i, <<L, R>>, ks[Rounds - 1 - i])
     IN L' = p[1] /\ R' = p[2]
  /\ i' = i + 1
  /\ UNCHANGED <<call, ks, block, ghosts>>

EncryptReturns ==
  /\ call = "encrypt" /\ i = Rounds /\ call' = "idle"
  /\ cipher' = Joined(L, R) /\ sealed' = TRUE
  /\ UNCHANGED <<ks, i, L, R, block, plain, trace>>

\* The block returned is Joined(L, R).
DecryptReturns ==
  /\ call = "decrypt" /\ i = Rounds /\ call' = "idle"
  /\ UNCHANGED <<ks, i, L, R, block, ghosts>>

Next ==
  \/ \E schedule \in Schedules : DesInit(schedule)
  \/ \E b \in Blocks : Encrypt(b) \/ Decrypt(b)
  \/ EncryptRound \/ EncryptReturns \/ DecryptRound \/ DecryptReturns

Spec == Init /\ [][Next]_vars

-----------------------------------------------------------------------------
TypeOK ==
  /\ call \in {"idle", "encrypt", "decrypt"} /\ i \in 0..Rounds
  /\ ks \in Schedules /\ L \in Halves /\ R \in Halves
  /\ {block, plain, cipher} \subseteq Blocks /\ sealed \in BOOLEAN
  /\ trace \in [0..Rounds -> Pairs]

\* des_decrypt of what des_encrypt made of a block, under the same schedule, is
\* that block, whatever was encrypted or decrypted under it in between.
RoundTrip ==
  [][DecryptReturns /\ sealed /\ block = cipher => Joined(L, R) = plain]_vars

-----------------------------------------------------------------------------
(* Why RoundTrip holds: decryption passes through the halves encryption    *)
(* went through, in reverse and exchanged.                                 *)

\* Up to round n the trace is an encryption of plain under ks.
Traced(n) ==
  /\ trace[0] = IP[plain]
  /\ \A m \in 0..n - 1 : trace[m + 1] = Mixed(m, trace[m], ks[m])

TraceInv ==
  /\ call = "encrypt" => ~sealed /\ Traced(i) /\ trace[i] = <<L, R>>
  /\ sealed => /\ Traced(Rounds)
               /\ cipher = Joined(trace[Rounds][1], trace[Rounds][2])
  /\ call = "decrypt" /\ sealed /\ block = cipher =>
       L = trace[Rounds - i][2] /\ R = trace[Rounds - i][1]
=============================================================================
