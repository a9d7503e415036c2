---------------------------- MODULE MCMembersPoll ----------------------------
(* A small instance of MembersPoll for TLC: two members, one free name.     *)
EXTENDS MembersPoll

CONSTANTS n1, n2, free, pos, items
=============================================================================
