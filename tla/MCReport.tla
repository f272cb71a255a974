------------------------------ MODULE MCReport ------------------------------
(***************************************************************************)
(* A small instance of Report: days of two hours, two addresses.           *)
(***************************************************************************)
EXTENDS Report, TLC

CONSTANTS x, y

Addresses == Permutations(Addrs)
\* res/codes.csv
CodesCsv == {10, 101, 102, 103, 106, 107, 108, 109, 201, 202, 301, 402, 1001,
             1002, 1003, 1007, 2001, 4001, 5001, 10001, 100001, 100002, 100003,
             200001, 200101, 400001, 400002, 400003, 400004}
=============================================================================
