----------------------------- MODULE Addresses -----------------------------
(***************************************************************************)
(* The address a WireGuard account gets in 10.202.0.0/16                   *)
(* (app/services/wireguard.py), as the pair of its last two octets.        *)
(***************************************************************************)
EXTENDS Integers

(* Mutant of allocate_ip: the third octet counts blocks of 254. *)
allocate_ip_254(user_id) ==
    LET block == (user_id \div 254) % 255
    IN  <<IF block = 0 THEN 1 ELSE block, (user_id % 253) + 1>>

allocate_ip(user_id) ==
    LET block == (user_id \div 253) % 255
    IN  <<IF block = 0 THEN 1 ELSE block, (user_id % 253) + 1>>

(* From the first id whose third octet is not replaced to the last one     *)
(* before the octet starts again                                           *)
OneToOne == 253 .. 253 * 255 - 1
=============================================================================
