----------------------------- MODULE SpiMessage -----------------------------
(***************************************************************************)
(* SPI messages of user space (switch-spi.c): spidev_get_ioc_message and   *)
(* spidev_message, which lay the transfers of one ioctl out in two bounce  *)
(* buffers, send them, and copy what was received back.                    *)
(*                                                                         *)
(* The lengths are the user's, of any value; the sums are unsigned int.    *)
(* One pass of a loop is one action.                                       *)
(***************************************************************************)
EXTENDS Naturals

CONSTANTS
  WordMod,    (* 2^32: sums of lengths are taken modulo this              *)
  IntMax,     (* INT_MAX                                                  *)
  BufSize,    (* SJA1105_SPI_BUFSIZE                                      *)
  XferSize,   (* sizeof(struct spi_ioc_transfer)                          *)
  Lens,       (* lengths a transfer may have                              *)
  MaxSize     (* bound: size of the array of transfers                    *)

ASSUME WordAssumption ==
  /\ WordMod \in Nat /\ IntMax \in Nat /\ BufSize \in Nat
  /\ WordMod = 2 * (IntMax + 1) /\ BufSize <= IntMax
ASSUME SizeAssumption == XferSize \in Nat \ {0} /\ MaxSize \in Nat
ASSUME LensAssumption == Lens \subseteq 0..WordMod - 1

\* A transfer: its length, and whether it has data to receive and to send.
Xfers == [len : Lens, rx : BOOLEAN, tx : BOOLEAN]
NoXfer == [len |-> 0, rx |-> FALSE, tx |-> FALSE]

\* Numbers a transfer of a message may have.
Index == 1..MaxSize

VARIABLES
  pc,
  xfer, n,                  (* the array of the ioctl and its length      *)
  i,                        (* the transfer a loop is at                  *)
  total, rxTotal, txTotal,
  rxBuf, txBuf,             (* the pointers, from the start of the buffers *)
  rxAt, txAt,               (* where the transfers' data is                *)
  from,                     (* where it was copied back from               *)
  status,
  sum                       (* history: the length of all transfers so far *)

vars == <<pc, xfer, n, i, total, rxTotal, txTotal, rxBuf, txBuf, rxAt, txAt, from,
          status, sum>>

Init ==
  /\ pc = "ioctl"
  /\ xfer = [k \in Index |-> NoXfer] /\ n = 0 /\ i = 1
  /\ total = 0 /\ rxTotal = 0 /\ txTotal = 0
  /\ rxBuf = 0 /\ txBuf = 0
  /\ rxAt = [k \in Index |-> 0] /\ txAt = [k \in Index |-> 0]
  /\ from = [k \in Index |-> 0]
  /\ status = "none" /\ sum = 0

\* The call ends, at done or before.
Return(s) == pc' = "done" /\ status' = s

-----------------------------------------------------------------------------
(* spidev_get_ioc_message                                                  *)

\* The size in the command must be that of whole transfers; without any, the
\* call succeeds at once. The array, and its kernel version, need memory.
GetIocMessage ==
  /\ pc = "ioctl"
  /\ \E size \in 0..MaxSize :
       \/ size % XferSize # 0 /\ Return("EINVAL") /\ UNCHANGED <<xfer, n>>
       \/ size = 0 /\ Return("empty") /\ UNCHANGED <<xfer, n>>
       \/ /\ size % XferSize = 0 /\ size # 0
          /\ (Return("ENOMEM") \/ Return("EFAULT"))
          /\ UNCHANGED <<xfer, n>>
       \/ /\ size % XferSize = 0 /\ size # 0
          /\ n' = size \div XferSize
          /\ \E f \in [1..n' -> Xfers] :
               xfer' = [k \in Index |-> IF k \in 1..n' THEN f[k] ELSE NoXfer]
          /\ pc' = "layout" /\ UNCHANGED status
  /\ UNCHANGED <<i, total, rxTotal, txTotal, rxBuf, txBuf, rxAt, txAt, from, sum>>

-----------------------------------------------------------------------------
(* spidev_message, up to spi_sync                                          *)

Plus(x, y) == (x + y) % WordMod

\* Mutant: only the sum is tested.
TooLongSum(len) == Plus(total, len) > IntMax

\* Mutant: only the length of the transfer is tested.
TooLongAlone(len) == len > IntMax

TooLong(len) == Plus(total, len) > IntMax \/ len > IntMax

\* The transfer's share of a bounce buffer, if it wants one, is within it.
RxFits(x) == x.rx => Plus(rxTotal, x.len) <= BufSize
TxFits(x) == x.tx => Plus(txTotal, x.len) <= BufSize

\* Mutant: the pointer does not move past the data to receive.
LayOutSamePlace ==
  LET x == xfer[i] IN
  /\ pc = "layout" /\ i <= n
  /\ ~TooLong(x.len) /\ RxFits(x) /\ TxFits(x)
  /\ total' = Plus(total, x.len) /\ sum' = sum + x.len
  /\ IF x.rx THEN /\ rxTotal' = Plus(rxTotal, x.len)
                  /\ rxAt' = [rxAt EXCEPT ![i] = rxBuf]
             ELSE UNCHANGED <<rxTotal, rxAt>>
  /\ IF x.tx THEN /\ txTotal' = Plus(txTotal, x.len)
                  /\ txAt' = [txAt EXCEPT ![i] = txBuf]
                  /\ txBuf' = txBuf + x.len
             ELSE UNCHANGED <<txTotal, txAt, txBuf>>
  /\ i' = i + 1
  /\ UNCHANGED <<pc, xfer, n, from, status, rxBuf>>

\* A transfer gets its places in the buffers; its data to send is copied in.
LayOut ==
  LET x == xfer[i] IN
  /\ pc = "layout" /\ i <= n
  /\ ~TooLong(x.len) /\ RxFits(x) /\ TxFits(x)
  /\ total' = Plus(total, x.len) /\ sum' = sum + x.len
  /\ IF x.rx THEN /\ rxTotal' = Plus(rxTotal, x.len)
                  /\ rxAt' = [rxAt EXCEPT ![i] = rxBuf]
                  /\ rxBuf' = rxBuf + x.len
             ELSE UNCHANGED <<rxTotal, rxAt, rxBuf>>
  /\ IF x.tx THEN /\ txTotal' = Plus(txTotal, x.len)
                  /\ txAt' = [txAt EXCEPT ![i] = txBuf]
                  /\ txBuf' = txBuf + x.len
             ELSE UNCHANGED <<txTotal, txAt, txBuf>>
  /\ i' = i + 1
  /\ UNCHANGED <<pc, xfer, n, from, status>>

\* It is too long, or the user's memory cannot be reached.
LayOutFails ==
  LET x == xfer[i] IN
  /\ pc = "layout" /\ i <= n
  /\ \/ (TooLong(x.len) \/ ~RxFits(x) \/ ~TxFits(x)) /\ Return("EMSGSIZE")
     \/ /\ ~TooLong(x.len) /\ RxFits(x) /\ (x.rx \/ (x.tx /\ TxFits(x)))
        /\ Return("EFAULT")
  /\ UNCHANGED <<xfer, n, i, total, rxTotal, txTotal, rxBuf, txBuf, rxAt, txAt, from,
                 sum>>

-----------------------------------------------------------------------------
(* spi_sync and the way back                                               *)

SpiSync ==
  /\ pc = "layout" /\ i > n
  /\ \/ pc' = "copy" /\ i' = 1 /\ rxBuf' = 0 /\ UNCHANGED status
     \/ Return("EIO") /\ UNCHANGED <<i, rxBuf>>
  /\ UNCHANGED <<xfer, n, total, rxTotal, txTotal, txBuf, rxAt, txAt, from, sum>>

\* Mutant: one transfer too many.
CopyOutOneMore ==
  /\ pc = "copy" /\ i <= n + 1
  /\ IF xfer[i].rx THEN /\ from' = [from EXCEPT ![i] = rxBuf]
                        /\ rxBuf' = rxBuf + xfer[i].len
                   ELSE UNCHANGED <<from, rxBuf>>
  /\ i' = i + 1
  /\ UNCHANGED <<pc, xfer, n, total, rxTotal, txTotal, txBuf, rxAt, txAt, status, sum>>

\* Mutant: the pointer moves past transfers that received nothing, too.
CopyOutAdvances ==
  /\ pc = "copy" /\ i <= n
  /\ from' = [from EXCEPT ![i] = rxBuf]
  /\ rxBuf' = rxBuf + xfer[i].len
  /\ i' = i + 1
  /\ UNCHANGED <<pc, xfer, n, total, rxTotal, txTotal, txBuf, rxAt, txAt, status, sum>>

\* What a transfer received is copied to the user.
CopyOut ==
  /\ pc = "copy" /\ i <= n
  /\ IF xfer[i].rx THEN /\ from' = [from EXCEPT ![i] = rxBuf]
                        /\ rxBuf' = rxBuf + xfer[i].len
                   ELSE UNCHANGED <<from, rxBuf>>
  /\ i' = i + 1
  /\ UNCHANGED <<pc, xfer, n, total, rxTotal, txTotal, txBuf, rxAt, txAt, status, sum>>

\* The copy faults, or all is done and total is returned.
Finish ==
  /\ pc = "copy"
  /\ \/ i <= n /\ xfer[i].rx /\ Return("EFAULT")
     \/ i > n /\ Return("total")
  /\ UNCHANGED <<xfer, n, i, total, rxTotal, txTotal, rxBuf, txBuf, rxAt, txAt, from,
                 sum>>

\* The next ioctl starts anew: all of this is its own.
NextCall ==
  /\ pc = "done"
  /\ pc' = "ioctl"
  /\ xfer' = [k \in Index |-> NoXfer] /\ n' = 0 /\ i' = 1
  /\ total' = 0 /\ rxTotal' = 0 /\ txTotal' = 0
  /\ rxBuf' = 0 /\ txBuf' = 0
  /\ rxAt' = [k \in Index |-> 0] /\ txAt' = [k \in Index |-> 0]
  /\ from' = [k \in Index |-> 0]
  /\ status' = "none" /\ sum' = 0

Next == GetIocMessage \/ LayOut \/ LayOutFails \/ SpiSync \/ CopyOut \/ Finish
        \/ NextCall

Spec == Init /\ [][Next]_vars

-----------------------------------------------------------------------------
(* Properties                                                              *)

\* Every variable has its type.
TypeOK ==
  /\ pc \in {"ioctl", "layout", "copy", "done"}
  /\ xfer \in [Index -> Xfers \cup {NoXfer}] /\ n \in 0..MaxSize
  /\ i \in 1..n + 1
  /\ total \in 0..WordMod - 1 /\ rxTotal \in 0..WordMod - 1 /\ txTotal \in 0..WordMod - 1
  /\ rxBuf \in Nat /\ txBuf \in Nat
  /\ rxAt \in [Index -> Nat] /\ txAt \in [Index -> Nat] /\ from \in [Index -> Nat]
  /\ status \in {"none", "empty", "total", "EINVAL", "ENOMEM",
                "EMSGSIZE", "EFAULT", "EIO"}
  /\ sum \in Nat

\* The transfers that have their places.
LaidOut(k) == k \in 1..n /\ (pc = "layout" => k < i)

\* Whatever lengths user space asks for, and however their sums wrap, the data
\* of every transfer is within the bounce buffers.
InsideBuffers ==
  pc \in {"layout", "copy"} =>
    \A k \in Index : LaidOut(k) =>
      /\ xfer[k].rx => rxAt[k] + xfer[k].len <= BufSize
      /\ xfer[k].tx => txAt[k] + xfer[k].len <= BufSize

\* No two transfers share a place.
PlacesApart ==
  pc \in {"layout", "copy"} =>
    \A j, k \in Index : (j < k /\ LaidOut(k)) =>
      /\ (xfer[j].rx /\ xfer[k].rx) => rxAt[j] + xfer[j].len <= rxAt[k]
      /\ (xfer[j].tx /\ xfer[k].tx) => txAt[j] + xfer[j].len <= txAt[k]

\* The user gets for each transfer what that transfer received: the loop that
\* copies back finds the places the other loop gave.
OwnBytes ==
  pc = "copy" =>
    \A k \in Index : (k < i /\ k <= n /\ xfer[k].rx) => from[k] = rxAt[k]

\* The length that a call returns is the length of its transfers, and does not
\* look like an error.
ResultIsLength ==
  status = "total" => total = sum /\ total <= IntMax

=============================================================================
