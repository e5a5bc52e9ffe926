------------------------- MODULE SpiMessage_proofs -------------------------
(***************************************************************************)
(* What SpiMessage guarantees for every size of the words and of the       *)
(* buffers, for any number of transfers and whatever their lengths are.    *)
(*                                                                         *)
(* The pointers are the invariant's core: while places are given out each  *)
(* equals its total and is past every place given so far, so that a sum    *)
(* that would wrap is one that TooLong has refused already.                *)
(***************************************************************************)
EXTENDS SpiMessage, TLAPS

\* A call starts anew.
StartInv ==
  pc = "ioctl" => i = 1 /\ rxTotal = 0 /\ txTotal = 0 /\ rxBuf = 0 /\ txBuf = 0

\* Nothing has wrapped.
SumInv == total = sum /\ total <= IntMax

\* Each pointer equals its total, and every place given so far is before it.
LayoutInv ==
  pc = "layout" =>
    /\ rxBuf = rxTotal /\ rxBuf <= BufSize
    /\ txBuf = txTotal /\ txBuf <= BufSize
    /\ \A k \in Index : LaidOut(k) =>
         /\ xfer[k].rx => rxAt[k] + xfer[k].len <= rxBuf
         /\ xfer[k].tx => txAt[k] + xfer[k].len <= txBuf

\* p is where the data received by the k-th transfer has to be: behind that of
\* the one that receives before it.
StartsAt(k, p) ==
  /\ (\A j \in 1..k - 1 : ~xfer[j].rx) => p = 0
  /\ \A j \in 1..k - 1 :
       (xfer[j].rx /\ \A l \in j + 1..k - 1 : ~xfer[l].rx)
         => p = rxAt[j] + xfer[j].len

\* The places follow one another, and so will the next one.
LinkInv ==
  /\ pc \in {"layout", "copy"} =>
       \A k \in Index : (LaidOut(k) /\ xfer[k].rx) => StartsAt(k, rxAt[k])
  /\ pc = "layout" => StartsAt(i, rxBuf)

\* On the way back the pointer is where the next place is.
NextPlace ==
  pc = "copy" =>
    \A k \in i..n :
      (xfer[k].rx /\ \A l \in i..k - 1 : ~xfer[l].rx) => rxAt[k] = rxBuf

SafeInv == TypeOK /\ StartInv /\ SumInv /\ LayoutInv /\ InsideBuffers /\ PlacesApart
           /\ ResultIsLength

IInv == SafeInv /\ LinkInv /\ NextPlace /\ OwnBytes

-----------------------------------------------------------------------------
\* The remainder of a number is less than the divisor.
LEMMA ModBound ==
  ASSUME NEW w \in Nat \ {0}, NEW x \in Nat PROVE x % w \in 0..w - 1
  OBVIOUS

\* A number less than the divisor is its own remainder.
LEMMA ModSame ==
  ASSUME NEW w \in Nat \ {0}, NEW x \in Nat, x < w PROVE x % w = x
  OBVIOUS

\* A quotient is not more than what was divided.
LEMMA DivBound ==
  ASSUME NEW w \in Nat \ {0}, NEW x \in Nat PROVE x \div w \in 0..x
  OBVIOUS

LEMMA WordPositive == WordMod \in Nat \ {0}
  BY WordAssumption

\* A sum is a word.
LEMMA PlusWord ==
  ASSUME NEW x \in Nat, NEW y \in Nat PROVE Plus(x, y) \in 0..WordMod - 1
<1>1. x + y \in Nat
  OBVIOUS
<1>2. QED
  BY <1>1, ModBound, WordPositive DEF Plus

\* Lengths that TooLong lets pass add up without wrapping.
LEMMA NoWrap ==
  ASSUME SumInv, total \in Nat, NEW len \in Nat, ~TooLong(len)
  PROVE  Plus(total, len) = total + len /\ total + len <= IntMax
<1>1. len <= IntMax /\ total <= IntMax
  BY WordAssumption DEF TooLong, Plus, SumInv
<1>2. total + len < WordMod
  BY <1>1, WordAssumption
<1>3. (total + len) % WordMod = total + len
  BY <1>2, ModSame, WordPositive
<1>4. QED
  BY <1>3, WordAssumption DEF TooLong, Plus, SumInv

\* Nor do their shares of a buffer.
LEMMA NoWrapShare ==
  ASSUME NEW t \in 0..BufSize, NEW len \in 0..IntMax
  PROVE  Plus(t, len) = t + len
<1>1. t + len \in Nat /\ t + len < WordMod
  BY WordAssumption
<1>2. QED
  BY <1>1, ModSame, WordPositive DEF Plus

LEMMA FirstIn == ASSUME NEW m \in Nat PROVE 1 \in 1..m + 1
  OBVIOUS

LEMMA LensNat == Lens \subseteq Nat
  BY LensAssumption, WordAssumption

\* A transfer has a length and two flags.
LEMMA XferFields ==
  ASSUME TypeOK, NEW k \in Index
  PROVE  xfer[k].len \in Nat /\ xfer[k].rx \in BOOLEAN /\ xfer[k].tx \in BOOLEAN
<1>1. xfer[k] \in Xfers \cup {NoXfer}
  BY DEF TypeOK
<1>2. CASE xfer[k] \in Xfers
  <2>1. xfer[k].len \in Lens
    BY <1>2, Zenon DEF Xfers
  <2>2. xfer[k].rx \in BOOLEAN /\ xfer[k].tx \in BOOLEAN
    BY <1>2, Zenon DEF Xfers
  <2>3. xfer[k].len \in Nat
    BY <2>1, LensNat, Zenon
  <2>4. QED
    BY <2>2, <2>3, Zenon
<1>3. CASE xfer[k] = NoXfer
  <2>1. NoXfer.len = 0 /\ NoXfer.rx = FALSE /\ NoXfer.tx = FALSE
    BY Zenon DEF NoXfer
  <2>2. 0 \in Nat
    OBVIOUS
  <2>3. QED
    BY <1>3, <2>1, <2>2, Zenon
<1>4. QED
  BY <1>1, <1>2, <1>3, Zenon

-----------------------------------------------------------------------------
(* Types                                                                   *)

LEMMA InitType == Init => TypeOK /\ StartInv
<1> SUFFICES ASSUME Init PROVE TypeOK /\ StartInv
  OBVIOUS
<1>1. xfer \in [Index -> Xfers \cup {NoXfer}]
  BY Zenon DEF Init
<1>2. QED
  BY <1>1, WordAssumption, SizeAssumption DEF Init, TypeOK, StartInv

\* Only NextCall starts a call.
LEMMA StartStep == TypeOK /\ StartInv /\ [Next]_vars => StartInv'
<1> SUFFICES ASSUME StartInv, [Next]_vars PROVE StartInv'
  OBVIOUS
<1>1. CASE NextCall
  BY <1>1 DEF NextCall, StartInv
<1>2. CASE UNCHANGED vars
  BY <1>2 DEF vars, StartInv
<1>3. CASE Next /\ ~NextCall
  <2>1. pc' # "ioctl"
    BY <1>3 DEF Next, GetIocMessage, LayOut, LayOutFails, SpiSync, CopyOut, Finish,
       Return
  <2>2. QED
    BY <2>1 DEF StartInv
<1>4. QED
  BY <1>1, <1>2, <1>3

LEMMA TypeStep == TypeOK /\ StartInv /\ [Next]_vars => TypeOK'
<1> SUFFICES ASSUME TypeOK, StartInv, [Next]_vars PROVE TypeOK'
  OBVIOUS
<1> USE DEF TypeOK
<1>1. CASE GetIocMessage
  <2>1. PICK size \in 0..MaxSize :
         \/ n' = n /\ xfer' = xfer /\ pc' = "done"
            /\ status' \in {"EINVAL", "empty", "ENOMEM", "EFAULT"}
         \/ /\ n' = size \div XferSize
            /\ \E f \in [1..n' -> Xfers] :
                 xfer' = [k \in Index |-> IF k \in 1..n' THEN f[k] ELSE NoXfer]
            /\ pc' = "layout" /\ status' = status
    BY <1>1 DEF GetIocMessage, Return
  <2>2. n' \in 0..MaxSize
    <3>1. size \div XferSize \in 0..size
      BY DivBound, SizeAssumption
    <3>2. QED
      BY <2>1, <3>1, SizeAssumption
  <2>3. xfer' \in [Index -> Xfers \cup {NoXfer}]
    <3>1. CASE xfer' = xfer
      BY <3>1, Zenon
    <3>2. CASE \E f \in [1..n' -> Xfers] :
                 xfer' = [k \in Index |-> IF k \in 1..n' THEN f[k] ELSE NoXfer]
      BY <3>2, Zenon
    <3>3. QED
      BY <2>1, <3>1, <3>2
  <2>4. i' = 1
    BY <1>1 DEF GetIocMessage, StartInv
  <2>5. /\ UNCHANGED <<total, rxTotal, txTotal, rxBuf, txBuf, rxAt, txAt, from, sum>>
        /\ pc' \in {"layout", "done"}
        /\ status' \in {"EINVAL", "empty", "ENOMEM", "EFAULT", status}
    BY <1>1, <2>1 DEF GetIocMessage
  <2>6. i' \in 1..n' + 1
    <3>1. n' \in Nat
      BY <2>2, SizeAssumption
    <3>2. 1 \in 1..n' + 1
      BY <3>1, FirstIn
    <3>3. QED
      BY <2>4, <3>2
  <2>7. status' \in {"none", "empty", "total", "EINVAL", "ENOMEM", "EMSGSIZE",
                    "EFAULT", "EIO"}
    BY <2>5
  <2>8. QED
    BY <2>2, <2>3, <2>5, <2>6, <2>7
<1>2. CASE LayOut
  <2>1. i \in Index /\ xfer[i].len \in Nat
    BY <1>2, XferFields, SizeAssumption DEF LayOut, Index
  <2>2. /\ Plus(total, xfer[i].len) \in 0..WordMod - 1
        /\ Plus(rxTotal, xfer[i].len) \in 0..WordMod - 1
        /\ Plus(txTotal, xfer[i].len) \in 0..WordMod - 1
    <3>1. total \in Nat /\ rxTotal \in Nat /\ txTotal \in Nat
      BY WordAssumption
    <3>2. QED
      BY <2>1, <3>1, PlusWord
  <2>3. /\ rxTotal' \in 0..WordMod - 1 /\ rxAt' \in [Index -> Nat] /\ rxBuf' \in Nat
        /\ txTotal' \in 0..WordMod - 1 /\ txAt' \in [Index -> Nat] /\ txBuf' \in Nat
    BY <1>2, <2>1, <2>2 DEF LayOut
  <2>4. i' \in 1..n' + 1
    BY <1>2 DEF LayOut
  <2>5. QED
    BY <1>2, <2>1, <2>2, <2>3, <2>4 DEF LayOut
<1>3. CASE CopyOut
  <2>1. i \in Index /\ xfer[i].len \in Nat
    <3>1. i \in Index
      BY <1>3, SizeAssumption DEF CopyOut, Index
    <3>2. QED
      BY <3>1, XferFields
  <2>2. from' \in [Index -> Nat] /\ rxBuf' \in Nat
    BY <1>3, <2>1 DEF CopyOut
  <2>3. i' \in 1..n' + 1
    BY <1>3 DEF CopyOut
  <2>4. QED
    BY <1>3, <2>2, <2>3 DEF CopyOut
<1>4. CASE LayOutFails
  BY <1>4 DEF LayOutFails, Return
<1>5. CASE SpiSync
  BY <1>5 DEF SpiSync, Return
<1>6. CASE Finish
  BY <1>6 DEF Finish, Return
<1>7. CASE NextCall
  <2>1. xfer' \in [Index -> Xfers \cup {NoXfer}]
    BY <1>7, Zenon DEF NextCall
  <2>2. QED
    BY <1>7, <2>1, WordAssumption, SizeAssumption DEF NextCall
<1>8. CASE UNCHANGED vars
  BY <1>8 DEF vars
<1>9. QED
  BY <1>1, <1>2, <1>3, <1>4, <1>5, <1>6, <1>7, <1>8 DEF Next

-----------------------------------------------------------------------------
(* Sums and places                                                         *)

\* A step that gives places: no sum wraps, and the pointers stay inside.
LEMMA LayOutFacts ==
  ASSUME SafeInv, LayOut
  PROVE  /\ i \in Index /\ xfer[i].len \in Nat /\ pc = "layout" /\ pc' = pc
         /\ i' = i + 1 /\ n' = n /\ xfer' = xfer /\ status' = status
         /\ total' = total + xfer[i].len /\ total' <= IntMax
         /\ sum' = sum + xfer[i].len
         /\ xfer[i].rx => /\ rxTotal' = rxTotal + xfer[i].len
                          /\ rxBuf' = rxBuf + xfer[i].len /\ rxBuf' <= BufSize
                          /\ rxAt' = [rxAt EXCEPT ![i] = rxBuf]
         /\ ~xfer[i].rx => UNCHANGED <<rxTotal, rxBuf, rxAt>>
         /\ xfer[i].tx => /\ txTotal' = txTotal + xfer[i].len
                          /\ txBuf' = txBuf + xfer[i].len /\ txBuf' <= BufSize
                          /\ txAt' = [txAt EXCEPT ![i] = txBuf]
         /\ ~xfer[i].tx => UNCHANGED <<txTotal, txBuf, txAt>>
<1>1. i \in Index
  BY SizeAssumption DEF SafeInv, TypeOK, LayOut, Index
<1>2. xfer[i].len \in Nat
  BY <1>1, XferFields DEF SafeInv
<1>3. ~TooLong(xfer[i].len)
  BY DEF LayOut
<1>4. total \in Nat /\ SumInv
  BY WordAssumption DEF SafeInv, TypeOK
<1>5. /\ Plus(total, xfer[i].len) = total + xfer[i].len
      /\ total + xfer[i].len <= IntMax
  BY <1>2, <1>3, <1>4, NoWrap
<1>6. xfer[i].len \in 0..IntMax
  BY <1>2, <1>4, <1>5, WordAssumption
<1>7. /\ rxTotal \in 0..BufSize /\ rxBuf = rxTotal
      /\ txTotal \in 0..BufSize /\ txBuf = txTotal
  BY WordAssumption DEF SafeInv, TypeOK, LayoutInv, LayOut
<1>8. /\ Plus(rxTotal, xfer[i].len) = rxTotal + xfer[i].len
      /\ Plus(txTotal, xfer[i].len) = txTotal + xfer[i].len
  BY <1>6, <1>7, NoWrapShare
<1>9. xfer[i].rx => rxTotal + xfer[i].len <= BufSize
  BY <1>8 DEF LayOut, RxFits
<1>10. xfer[i].tx => txTotal + xfer[i].len <= BufSize
  BY <1>8 DEF LayOut, TxFits
<1>11. QED
  BY <1>1, <1>2, <1>5, <1>7, <1>8, <1>9, <1>10 DEF LayOut

\* The places given so far and the one given now stay apart and inside.
LEMMA LayOutSafe ==
  ASSUME SafeInv, LayOut
  PROVE  SumInv' /\ LayoutInv' /\ InsideBuffers' /\ PlacesApart' /\ ResultIsLength'
<1> USE LayOutFacts
<1>1. SumInv'
  BY DEF SafeInv, SumInv
<1>2. /\ rxAt \in [Index -> Nat] /\ txAt \in [Index -> Nat]
      /\ rxBuf \in Nat /\ txBuf \in Nat /\ n \in Nat /\ i \in Nat
      /\ \A k \in Index : xfer[k].len \in Nat
  BY XferFields, SizeAssumption DEF SafeInv, TypeOK
<1>3. \A k \in Index : LaidOut(k)' => LaidOut(k) \/ k = i
  BY <1>2 DEF LaidOut, Index
<1>4. \A k \in Index : k # i => rxAt'[k] = rxAt[k] /\ txAt'[k] = txAt[k]
  BY <1>2
<1>5. /\ xfer[i].rx => rxAt'[i] = rxBuf
      /\ xfer[i].tx => txAt'[i] = txBuf
  BY <1>2
<1>6. rxBuf <= rxBuf' /\ txBuf <= txBuf' /\ rxBuf' \in Nat /\ txBuf' \in Nat
  BY <1>2
<1>7. ASSUME NEW k \in Index, LaidOut(k)
      PROVE  /\ k < i
             /\ xfer[k].rx => rxAt[k] + xfer[k].len <= rxBuf
             /\ xfer[k].tx => txAt[k] + xfer[k].len <= txBuf
  BY <1>7 DEF SafeInv, LayoutInv, LaidOut
<1>8. ASSUME NEW k \in Index, LaidOut(k)'
      PROVE  /\ xfer'[k].rx => rxAt'[k] + xfer'[k].len <= rxBuf'
             /\ xfer'[k].tx => txAt'[k] + xfer'[k].len <= txBuf'
  <2>1. CASE k = i
    BY <2>1, <1>2, <1>5
  <2>2. CASE k # i
    <3>1. LaidOut(k)
      BY <1>3, <1>8, <2>2
    <3>2. rxAt'[k] = rxAt[k] /\ txAt'[k] = txAt[k]
      BY <1>4, <2>2
    <3>3. rxAt[k] \in Nat /\ txAt[k] \in Nat /\ xfer[k].len \in Nat
      BY <1>2
    <3>4. QED
      BY <1>2, <1>6, <1>7, <3>1, <3>2, <3>3
  <2>3. QED
    BY <2>1, <2>2
<1>9. /\ rxBuf' = rxTotal' /\ rxBuf' <= BufSize
      /\ txBuf' = txTotal' /\ txBuf' <= BufSize
  BY DEF SafeInv, LayoutInv
<1>10. LayoutInv'
  BY <1>8, <1>9 DEF LayoutInv
<1>11. InsideBuffers'
  <2> SUFFICES ASSUME NEW k \in Index, LaidOut(k)'
               PROVE  /\ xfer'[k].rx => rxAt'[k] + xfer'[k].len <= BufSize
                      /\ xfer'[k].tx => txAt'[k] + xfer'[k].len <= BufSize
    BY DEF InsideBuffers
  <2>1. rxAt'[k] \in Nat /\ txAt'[k] \in Nat /\ xfer'[k].len \in Nat
    BY <1>2
  <2>2. QED
    BY <1>6, <1>8, <1>9, <2>1, WordAssumption
<1>12. PlacesApart'
  <2> SUFFICES ASSUME NEW j \in Index, NEW k \in Index, j < k, LaidOut(k)'
               PROVE  /\ (xfer'[j].rx /\ xfer'[k].rx) => rxAt'[j] + xfer'[j].len <= rxAt'[k]
                      /\ (xfer'[j].tx /\ xfer'[k].tx) => txAt'[j] + xfer'[j].len <= txAt'[k]
    BY DEF PlacesApart
  <2>1. j # i /\ LaidOut(j)
    BY <1>2 DEF LaidOut, Index
  <2>2. rxAt'[j] = rxAt[j] /\ txAt'[j] = txAt[j]
    BY <1>4, <2>1
  <2>3. CASE k = i
    BY <1>5, <1>7, <2>1, <2>2, <2>3
  <2>4. CASE k # i
    <3>1. LaidOut(k)
      BY <1>3, <2>4
    <3>2. rxAt'[k] = rxAt[k] /\ txAt'[k] = txAt[k]
      BY <1>4, <2>4
    <3>3. QED
      BY <2>2, <3>1, <3>2 DEF SafeInv, PlacesApart
  <2>5. QED
    BY <2>3, <2>4
<1>13. ResultIsLength'
  BY <1>1 DEF ResultIsLength, SumInv
<1>14. QED
  BY <1>1, <1>10, <1>11, <1>12, <1>13

LEMMA InitSafe == Init => SafeInv
<1> SUFFICES ASSUME Init PROVE SafeInv
  OBVIOUS
<1>1. SumInv /\ LayoutInv /\ InsideBuffers /\ PlacesApart /\ ResultIsLength
  BY WordAssumption DEF Init, SumInv, LayoutInv, InsideBuffers, PlacesApart,
     ResultIsLength
<1>2. QED
  BY <1>1, InitType DEF SafeInv

\* The sums and the places through every step.
LEMMA SumsAndPlaces ==
  ASSUME SafeInv, [Next]_vars
  PROVE  SumInv' /\ LayoutInv' /\ InsideBuffers' /\ PlacesApart' /\ ResultIsLength'
<1>1. CASE GetIocMessage
  <2>1. /\ pc' \in {"layout", "done"} /\ i' = i /\ pc = "ioctl" /\ total' = total
        /\ sum' = sum /\ UNCHANGED <<rxTotal, txTotal, rxBuf, txBuf>>
    BY <1>1 DEF GetIocMessage, Return
  <2>2. i' = 1 /\ rxBuf' = 0 /\ rxTotal' = 0 /\ txBuf' = 0 /\ txTotal' = 0
    BY <2>1 DEF SafeInv, StartInv
  <2>3. \A k \in Index : pc' = "layout" => ~LaidOut(k)'
    BY <2>2 DEF LaidOut, Index
  <2>4. SumInv'
    BY <2>1 DEF SafeInv, SumInv
  <2>5. LayoutInv'
    BY <2>2, <2>3, WordAssumption DEF LayoutInv
  <2>6. InsideBuffers' /\ PlacesApart'
    BY <2>1, <2>3 DEF InsideBuffers, PlacesApart
  <2>7. ResultIsLength'
    BY <2>4 DEF ResultIsLength, SumInv
  <2>8. QED
    BY <2>4, <2>5, <2>6, <2>7
<1>2. CASE LayOut
  BY <1>2, LayOutSafe
<1>3. CASE LayOutFails
  <2>1. pc' = "done" /\ total' = total /\ sum' = sum
    BY <1>3 DEF LayOutFails, Return
  <2>2. QED
    BY <2>1 DEF SafeInv, SumInv, LayoutInv, InsideBuffers, PlacesApart, ResultIsLength
<1>4. CASE SpiSync
  <2>1. /\ pc = "layout" /\ pc' \in {"copy", "done"} /\ i > n
        /\ UNCHANGED <<xfer, n, total, sum, rxAt, txAt>>
    BY <1>4 DEF SpiSync, Return
  <2>2. \A k \in Index : LaidOut(k)' => LaidOut(k)
    BY <2>1, SizeAssumption DEF LaidOut, Index, SafeInv, TypeOK
  <2>3. QED
    BY <2>1, <2>2 DEF SafeInv, SumInv, LayoutInv, InsideBuffers, PlacesApart,
       ResultIsLength
<1>5. CASE CopyOut
  <2>1. /\ pc = "copy" /\ pc' = pc
        /\ UNCHANGED <<xfer, n, total, sum, rxAt, txAt, status>>
    BY <1>5 DEF CopyOut
  <2>2. \A k \in Index : LaidOut(k)' => LaidOut(k)
    BY <2>1 DEF LaidOut
  <2>3. QED
    BY <2>1, <2>2 DEF SafeInv, SumInv, LayoutInv, InsideBuffers, PlacesApart,
       ResultIsLength
<1>6. CASE Finish
  <2>1. pc' = "done" /\ total' = total /\ sum' = sum
    BY <1>6 DEF Finish, Return
  <2>2. QED
    BY <2>1 DEF SafeInv, SumInv, LayoutInv, InsideBuffers, PlacesApart, ResultIsLength
<1>7. CASE NextCall
  <2>1. pc' = "ioctl" /\ total' = 0 /\ sum' = 0
    BY <1>7 DEF NextCall
  <2>2. QED
    BY <2>1, WordAssumption DEF SumInv, LayoutInv, InsideBuffers, PlacesApart,
       ResultIsLength
<1>8. CASE UNCHANGED vars
  BY <1>8 DEF vars, SafeInv, SumInv, LayoutInv, InsideBuffers, PlacesApart,
     ResultIsLength, LaidOut
<1>9. QED
  BY <1>1, <1>2, <1>3, <1>4, <1>5, <1>6, <1>7, <1>8 DEF Next

LEMMA SafeStep == SafeInv /\ [Next]_vars => SafeInv'
  BY SumsAndPlaces, TypeStep, StartStep DEF SafeInv

-----------------------------------------------------------------------------
(* The way back                                                            *)

LEMMA InitOwn == Init => LinkInv /\ NextPlace /\ OwnBytes
  BY DEF Init, LinkInv, NextPlace, OwnBytes

\* The place given now starts where the one before it ends, and the pointer
\* is where the next one has to start.
LEMMA LayOutLinks ==
  ASSUME SafeInv, LinkInv, LayOut PROVE LinkInv'
<1> USE LayOutFacts
<1>1. /\ rxAt \in [Index -> Nat] /\ n \in Nat /\ i \in 1..MaxSize /\ MaxSize \in Nat
      /\ rxBuf \in Nat
  <2>1. i \in Index /\ rxAt \in [Index -> Nat] /\ rxBuf \in Nat /\ n \in 0..MaxSize
    BY DEF SafeInv, TypeOK
  <2>2. QED
    BY <2>1, SizeAssumption DEF Index
<1>2. \A k \in Index : k # i => rxAt'[k] = rxAt[k]
  BY <1>1
<1>3. ASSUME NEW k \in Index, k < i, LaidOut(k), xfer[k].rx
      PROVE  StartsAt(k, rxAt[k])'
  <2>1. StartsAt(k, rxAt[k])
    BY <1>3 DEF LinkInv
  <2>2. \A j \in 1..k - 1 : rxAt'[j] = rxAt[j]
    BY <1>1, <1>2, <1>3 DEF Index
  <2>3. rxAt'[k] = rxAt[k]
    BY <1>1, <1>2, <1>3 DEF Index
  <2>4. QED
    BY <2>1, <2>2, <2>3 DEF StartsAt
<1>4. StartsAt(i, rxBuf)
  BY DEF LinkInv
<1>5. \A j \in 1..i - 1 : rxAt'[j] = rxAt[j]
  BY <1>1, <1>2 DEF Index
<1>6. ASSUME NEW k \in Index, k = i, xfer[k].rx PROVE StartsAt(k, rxAt[k])'
  <2>1. rxAt'[k] = rxBuf
    BY <1>1, <1>6
  <2>2. QED
    BY <1>4, <1>5, <1>6, <2>1 DEF StartsAt
<1>7. StartsAt(i, rxBuf)'
  <2>1. ASSUME \A j \in 1..i' - 1 : ~xfer'[j].rx PROVE rxBuf' = 0
    <3>1. ~xfer[i].rx /\ \A j \in 1..i - 1 : ~xfer[j].rx
      BY <1>1, <2>1
    <3>2. QED
      BY <1>4, <3>1 DEF StartsAt
  <2>2. ASSUME NEW j \in 1..i' - 1, xfer'[j].rx, \A l \in j + 1..i' - 1 : ~xfer'[l].rx
        PROVE  rxBuf' = rxAt'[j] + xfer'[j].len
    <3>1. j \in 1..i
      BY <1>1
    <3>2. CASE j = i
      BY <1>1, <2>2, <3>2
    <3>3. CASE j # i
      <4>1. j \in 1..i - 1 /\ i \in j + 1..i' - 1
        BY <1>1, <3>1, <3>3
      <4>2. ~xfer[i].rx /\ \A l \in j + 1..i - 1 : ~xfer[l].rx
        BY <1>1, <2>2, <4>1
      <4>3. rxBuf = rxAt[j] + xfer[j].len
        BY <1>4, <2>2, <4>1, <4>2 DEF StartsAt
      <4>4. QED
        BY <1>5, <4>1, <4>2, <4>3
    <3>4. QED
      BY <3>2, <3>3
  <2>3. QED
    BY <2>1, <2>2 DEF StartsAt
<1>8. ASSUME NEW k \in Index, LaidOut(k)', xfer'[k].rx PROVE StartsAt(k, rxAt[k])'
  <2>1. k < i \/ k = i
    BY <1>1, <1>8 DEF LaidOut, Index
  <2>2. k < i => LaidOut(k)
    BY <1>8 DEF LaidOut
  <2>3. QED
    BY <1>3, <1>6, <1>8, <2>1, <2>2
<1>9. QED
  BY <1>7, <1>8 DEF LinkInv

\* The other steps leave the places where they are.
LEMMA LinkStep == SafeInv /\ LinkInv /\ [Next]_vars => LinkInv'
<1> SUFFICES ASSUME SafeInv, LinkInv, [Next]_vars PROVE LinkInv'
  OBVIOUS
<1>1. CASE GetIocMessage
  <2>1. pc' \in {"layout", "done"} /\ i' = 1 /\ rxBuf' = 0
    BY <1>1 DEF GetIocMessage, Return, SafeInv, StartInv
  <2>2. \A k \in Index : pc' = "layout" => ~LaidOut(k)'
    BY <2>1 DEF LaidOut, Index
  <2>3. StartsAt(i, rxBuf)'
    BY <2>1 DEF StartsAt
  <2>4. QED
    BY <2>1, <2>2, <2>3 DEF LinkInv
<1>2. CASE LayOut
  BY <1>2, LayOutLinks
<1>3. CASE SpiSync \/ CopyOut
  <2>1. /\ pc \in {"layout", "copy"} /\ pc' \in {"copy", "done"}
        /\ UNCHANGED <<xfer, n, rxAt>>
    BY <1>3 DEF SpiSync, CopyOut, Return
  <2>2. pc' = "copy" => \A k \in Index : LaidOut(k)' => LaidOut(k)
    BY <1>3, <2>1, SizeAssumption DEF LaidOut, Index, SafeInv, TypeOK, SpiSync, CopyOut
  <2>3. QED
    BY <2>1, <2>2 DEF LinkInv, StartsAt
<1>4. CASE LayOutFails \/ Finish \/ NextCall
  BY <1>4 DEF LayOutFails, Finish, NextCall, Return, LinkInv
<1>5. CASE UNCHANGED vars
  BY <1>5 DEF vars, LinkInv, LaidOut, StartsAt
<1>6. QED
  BY <1>1, <1>2, <1>3, <1>4, <1>5 DEF Next

\* Copying starts at the first place and goes on to the next.
LEMMA CopyOutNext ==
  ASSUME SafeInv, LinkInv, NextPlace, CopyOut PROVE NextPlace'
<1>1. /\ pc = "copy" /\ i \in 1..n /\ n \in Nat /\ n <= MaxSize /\ MaxSize \in Nat
      /\ i' = i + 1 /\ UNCHANGED <<xfer, n, rxAt>>
  <2>1. n \in 0..MaxSize /\ i \in 1..n + 1
    BY DEF SafeInv, TypeOK
  <2>2. QED
    BY <2>1, SizeAssumption DEF CopyOut
<1>2. SUFFICES ASSUME NEW k \in i'..n, xfer[k].rx, \A l \in i'..k - 1 : ~xfer[l].rx
               PROVE  rxAt[k] = rxBuf'
  BY <1>1 DEF NextPlace
<1>3. k \in Index /\ k \in i..n /\ LaidOut(k) /\ i \in 1..k - 1
  BY <1>1, <1>2 DEF Index, LaidOut
<1>4. CASE xfer[i].rx
  <2>1. rxAt[i] = rxBuf
    BY <1>1, <1>4 DEF NextPlace
  <2>2. StartsAt(k, rxAt[k])
    BY <1>1, <1>2, <1>3 DEF LinkInv
  <2>3. \A l \in i + 1..k - 1 : ~xfer[l].rx
    BY <1>1, <1>2
  <2>4. rxAt[k] = rxAt[i] + xfer[i].len
    BY <1>3, <1>4, <2>2, <2>3 DEF StartsAt
  <2>5. QED
    BY <1>4, <2>1, <2>4 DEF CopyOut
<1>5. CASE ~xfer[i].rx
  <2>1. \A l \in i..k - 1 : ~xfer[l].rx
    BY <1>1, <1>2, <1>5
  <2>2. rxAt[k] = rxBuf
    BY <1>1, <1>2, <1>3, <2>1 DEF NextPlace
  <2>3. QED
    BY <1>5, <2>2 DEF CopyOut
<1>6. QED
  BY <1>4, <1>5

LEMMA NextPlaceStep ==
  SafeInv /\ LinkInv /\ NextPlace /\ [Next]_vars => NextPlace'
<1> SUFFICES ASSUME SafeInv, LinkInv, NextPlace, [Next]_vars PROVE NextPlace'
  OBVIOUS
<1>1. CASE SpiSync
  <2>1. /\ pc = "layout" /\ i > n /\ n \in Nat /\ i \in Nat /\ n <= MaxSize
        /\ MaxSize \in Nat /\ UNCHANGED <<xfer, n, rxAt>>
    <3>1. n \in 0..MaxSize /\ i \in 1..n + 1
      BY DEF SafeInv, TypeOK
    <3>2. QED
      BY <1>1, <3>1, SizeAssumption DEF SpiSync
  <2>2. pc' # "done" => i' = 1 /\ rxBuf' = 0
    BY <1>1 DEF SpiSync, Return
  <2>3. ASSUME NEW k \in 1..n, xfer[k].rx, \A l \in 1..k - 1 : ~xfer[l].rx
        PROVE  rxAt[k] = 0
    <3>1. k \in Index /\ LaidOut(k)
      BY <2>1 DEF Index, LaidOut
    <3>2. StartsAt(k, rxAt[k])
      BY <2>1, <2>3, <3>1 DEF LinkInv
    <3>3. QED
      BY <2>3, <3>2 DEF StartsAt
  <2>4. QED
    BY <2>1, <2>2, <2>3 DEF NextPlace
<1>2. CASE CopyOut
  BY <1>2, CopyOutNext
<1>3. CASE GetIocMessage \/ LayOut \/ LayOutFails \/ Finish \/ NextCall
  <2>1. pc' # "copy"
    BY <1>3 DEF GetIocMessage, LayOut, LayOutFails, Finish, NextCall, Return
  <2>2. QED
    BY <2>1 DEF NextPlace
<1>4. CASE UNCHANGED vars
  BY <1>4 DEF vars, NextPlace
<1>5. QED
  BY <1>1, <1>2, <1>3, <1>4 DEF Next

LEMMA OwnStep == SafeInv /\ NextPlace /\ OwnBytes /\ [Next]_vars => OwnBytes'
<1> SUFFICES ASSUME SafeInv, NextPlace, OwnBytes, [Next]_vars PROVE OwnBytes'
  OBVIOUS
<1>1. CASE SpiSync
  <2>1. pc' = "copy" => i' = 1
    BY <1>1 DEF SpiSync, Return
  <2>2. QED
    BY <2>1 DEF OwnBytes, Index
<1>2. CASE CopyOut
  <2>1. /\ i \in 1..n /\ n \in 0..MaxSize /\ from \in [Index -> Nat]
        /\ i' = i + 1 /\ UNCHANGED <<xfer, n, rxAt>> /\ pc = "copy"
    <3>1. n \in 0..MaxSize /\ i \in 1..n + 1 /\ from \in [Index -> Nat]
      BY DEF SafeInv, TypeOK
    <3>2. QED
      BY <1>2, <3>1, SizeAssumption DEF CopyOut
  <2>2. i \in Index
    BY <2>1, SizeAssumption DEF Index
  <2>3. xfer[i].rx => rxAt[i] = rxBuf
    BY <2>1, SizeAssumption DEF NextPlace
  <2>4. xfer[i].rx => from'[i] = rxBuf
    BY <1>2, <2>1, <2>2 DEF CopyOut
  <2>5. \A k \in Index : k # i => from'[k] = from[k]
    BY <1>2, <2>1 DEF CopyOut
  <2>6. ASSUME NEW k \in Index, k < i', k <= n, xfer[k].rx PROVE from'[k] = rxAt[k]
    <3>1. k < i \/ k = i
      BY <2>1, <2>6, SizeAssumption DEF Index
    <3>2. CASE k = i
      BY <2>3, <2>4, <2>6, <3>2
    <3>3. CASE k < i
      <4>1. k # i
        BY <2>1, <3>3, SizeAssumption DEF Index
      <4>2. QED
        BY <2>1, <2>5, <2>6, <3>3, <4>1 DEF OwnBytes
    <3>4. QED
      BY <3>1, <3>2, <3>3
  <2>7. QED
    BY <2>1, <2>6 DEF OwnBytes
<1>3. CASE GetIocMessage \/ LayOut \/ LayOutFails \/ Finish \/ NextCall
  <2>1. pc' # "copy"
    BY <1>3 DEF GetIocMessage, LayOut, LayOutFails, Finish, NextCall, Return
  <2>2. QED
    BY <2>1 DEF OwnBytes
<1>4. CASE UNCHANGED vars
  BY <1>4 DEF vars, OwnBytes
<1>5. QED
  BY <1>1, <1>2, <1>3, <1>4 DEF Next

-----------------------------------------------------------------------------
LEMMA Inductive == Spec => []IInv
<1>1. Init => IInv
  BY InitSafe, InitOwn DEF IInv
<1>2. IInv /\ [Next]_vars => IInv'
  BY SafeStep, LinkStep, NextPlaceStep, OwnStep DEF IInv
<1>3. QED
  BY <1>1, <1>2, PTL DEF Spec

\* Every variable keeps its type, whatever user space asks for.
THEOREM TypeCorrect == Spec => []TypeOK
<1>1. IInv => TypeOK
  BY DEF IInv, SafeInv
<1>2. QED
  BY <1>1, Inductive, PTL

\* For every word and buffer size, and for transfers of any number and length,
\* no data is placed outside the bounce buffers.
THEOREM StaysInside == Spec => []InsideBuffers
<1>1. IInv => InsideBuffers
  BY DEF IInv, SafeInv
<1>2. QED
  BY <1>1, Inductive, PTL

\* No two transfers of a call share bytes of a buffer.
THEOREM StaysApart == Spec => []PlacesApart
<1>1. IInv => PlacesApart
  BY DEF IInv, SafeInv
<1>2. QED
  BY <1>1, Inductive, PTL

\* What is copied to a transfer's memory is what that transfer received, though
\* the two loops of spidev_message compute its place independently.
THEOREM GetsOwnBytes == Spec => []OwnBytes
<1>1. IInv => OwnBytes
  BY DEF IInv
<1>2. QED
  BY <1>1, Inductive, PTL

\* A call that succeeds returns the sum of its lengths, as a positive int.
THEOREM TrueLength == Spec => []ResultIsLength
<1>1. IInv => ResultIsLength
  BY DEF IInv, SafeInv
<1>2. QED
  BY <1>1, Inductive, PTL

=============================================================================
