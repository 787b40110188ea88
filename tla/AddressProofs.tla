--------------------------- MODULE AddressProofs ---------------------------
(* Proofs about allocate_ip: its octets are well-formed, it is one-to-one  *)
(* on OneToOne and on no larger range, and it repeats itself.              *)
EXTENDS Addresses, TLAPS

(* An id is told by the block of 253 it is in and its place there. *)
LEMMA BlockAndPlace ==
    ASSUME NEW id \in Nat
    PROVE  /\ id \div 253 \in Nat
           /\ id % 253 \in 0 .. 252
           /\ id = (253 * (id \div 253)) + (id % 253)
OBVIOUS

(* Up to the end of the range the third octet does not start again. *)
LEMMA BlocksOfRange ==
    ASSUME NEW id \in OneToOne
    PROVE  /\ id \in Nat
           /\ id \div 253 \in 1 .. 254
           /\ (id \div 253) % 255 = id \div 253
<1>1. id \in Nat /\ 253 <= id /\ id <= 64514
  BY DEF OneToOne
<1>2. id \div 253 \in 1 .. 254
  BY <1>1
<1>3. \A q \in 1 .. 254 : q % 255 = q
  OBVIOUS
<1>4. QED
  BY <1>1, <1>2, <1>3

(* The octets never are those of a network or a broadcast address, for any *)
(* user id.                                                                *)
THEOREM WellFormed ==
    ASSUME NEW id \in Nat
    PROVE  allocate_ip(id) \in (1 .. 254) \X (1 .. 253)
<1> DEFINE block == (id \div 253) % 255
<1>1. block \in 0 .. 254
  BY BlockAndPlace
<1>2. (id % 253) + 1 \in 1 .. 253
  BY BlockAndPlace
<1> HIDE DEF block
<1>3. (IF block = 0 THEN 1 ELSE block) \in 1 .. 254
  BY <1>1
<1>4. QED
  BY <1>2, <1>3 DEF allocate_ip, block

(* Users with ids from 253 to 64514 have addresses of their own. *)
THEOREM Distinct ==
    ASSUME NEW i \in OneToOne, NEW j \in OneToOne, allocate_ip(i) = allocate_ip(j)
    PROVE  i = j
<1>1. i \div 253 = j \div 253 /\ i % 253 = j % 253
  <2>1. ASSUME NEW k \in OneToOne
        PROVE  allocate_ip(k)[1] = k \div 253 /\ allocate_ip(k)[2] = (k % 253) + 1
    BY BlocksOfRange DEF allocate_ip
  <2>2. i \div 253 = j \div 253 /\ (i % 253) + 1 = (j % 253) + 1
    BY <2>1
  <2>3. i % 253 \in Int /\ j % 253 \in Int
    BY BlockAndPlace, BlocksOfRange
  <2>4. QED
    BY <2>2, <2>3
<1>2. QED
  BY <1>1, BlockAndPlace, BlocksOfRange

(* Below that range no address is a user's own: the first 253 ids have the *)
(* addresses of the next 253, since a third octet of zero is made one.     *)
THEOREM LowIdsCollide ==
    ASSUME NEW id \in 0 .. 252
    PROVE  allocate_ip(id) = allocate_ip(id + 253)
<1>1. id \div 253 = 0 /\ (id + 253) \div 253 = 1 /\ (id + 253) % 253 = id % 253
  OBVIOUS
<1>2. QED
  BY <1>1 DEF allocate_ip

-----------------------------------------------------------------------------
(* The division of a number that is given as block and place *)
LEMMA Composed ==
    ASSUME NEW b \in Nat, NEW p \in 0 .. 252
    PROVE  (253 * b + p) \div 253 = b /\ (253 * b + p) % 253 = p
OBVIOUS

(* After 64515 ids the addresses start again: a user and one created that  *)
(* many ids later have the same address.                                   *)
THEOREM Periodic ==
    ASSUME NEW id \in Nat
    PROVE  allocate_ip(id + 253 * 255) = allocate_ip(id)
<1> DEFINE b == id \div 253
           p == id % 253
           c == b + 255
           later == id + 253 * 255
<1>1. b \in Nat /\ c \in Nat
  BY BlockAndPlace
<1>2. p \in 0 .. 252
  BY BlockAndPlace
<1>3. later = 253 * c + p
  BY BlockAndPlace
<1>4. c % 255 = b % 255
  BY <1>1
<1> HIDE DEF b, p, c, later
<1>5. (253 * c + p) \div 253 = c /\ (253 * c + p) % 253 = p
  BY <1>1, <1>2, Composed, Zenon
<1>6. later \div 253 = c /\ later % 253 = p
  BY <1>3, <1>5
<1>7. allocate_ip(later) = allocate_ip(id)
  BY <1>4, <1>6 DEF allocate_ip, b, p
<1>8. QED
  BY <1>7 DEF later

LEMMA OwnerOf ==
    ASSUME NEW b \in Nat, 1 <= b, b <= 254, NEW p \in 0 .. 252
    PROVE  253 * b + p \in OneToOne /\ allocate_ip(253 * b + p) = <<b, p + 1>>
<1>1. b % 255 = b /\ b # 0
  OBVIOUS
<1>2. (253 * b + p) \div 253 = b /\ (253 * b + p) % 253 = p
  BY Composed, Zenon
<1>3. 253 * b + p \in OneToOne
  BY DEF OneToOne
<1>4. allocate_ip(253 * b + p) = <<b, p + 1>>
  BY <1>1, <1>2 DEF allocate_ip
<1>5. QED
  BY <1>3, <1>4

(* No id outside of the range has an address that is not somebody's in it: *)
(* there is no larger range on which addresses are distinct, and no more   *)
(* users than it has ids can have addresses of their own.                  *)
THEOREM RangeIsMaximal ==
    ASSUME NEW id \in Nat
    PROVE  \E i \in OneToOne : allocate_ip(i) = allocate_ip(id)
<1>1. id \div 253 \in Nat /\ id % 253 \in 0 .. 252
  BY BlockAndPlace
<1>2. (id \div 253) % 255 \in 0 .. 254
  BY <1>1
<1> DEFINE block == (id \div 253) % 255
           b == IF block = 0 THEN 1 ELSE block
           p == id % 253
<1>3. b \in Nat /\ 1 <= b /\ b <= 254 /\ p \in 0 .. 252
  BY <1>1, <1>2
<1>4. allocate_ip(id) = <<b, p + 1>>
  BY DEF allocate_ip
<1> HIDE DEF b, p
<1>5. 253 * b + p \in OneToOne /\ allocate_ip(253 * b + p) = <<b, p + 1>>
  BY <1>3, OwnerOf, Zenon
<1>6. QED
  BY <1>4, <1>5, Zenon
=============================================================================
