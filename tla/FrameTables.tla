---------------------------- MODULE FrameTables ----------------------------
(***************************************************************************)
(* acc_table and gyr_table of the BMI270 driver, as sequences of samples   *)
(* whose length is acc_table_pos and gyr_table_pos.                        *)
(***************************************************************************)
EXTENDS Integers, Sequences

CONSTANT TableLength   \* BMI270_STORE_TABLE_LENGTH

ASSUME TableLengthOK == TableLength \in Nat \ {0}

PushUnguarded(table, sample) == Append(table, sample)

(* What the decoder does with one sample: "store overflow" drops it.       *)
Push(table, sample) ==
  IF Len(table) >= TableLength THEN table ELSE Append(table, sample)

KeptAll(table, samples) == table \o samples

(* What is to come of a table and a whole run of samples: the first ones,  *)
(* as many as there is room for.                                           *)
Kept(table, samples) ==
  LET all == table \o samples
  IN  IF Len(all) <= TableLength THEN all ELSE SubSeq(all, 1, TableLength)
=============================================================================
