----------------------------- MODULE StockFile -----------------------------
(***************************************************************************)
(* The stock database on the disk: an array of Product records, read once  *)
(* by load_stock and written back by save_stock with one write() after the *)
(* file has been truncated.  A product stands for its whole record.        *)
(***************************************************************************)
EXTENDS Naturals, Sequences

CONSTANT Products

\* torn: the last record is not all there.
StockFiles == [records : Seq(Products), torn : BOOLEAN]

EmptyFile == [records |-> <<>>, torn |-> FALSE]

NullStock == <<>>

\* Mutant of WholeRecords: the size is rounded up, and what is missing of the
\* last record is whatever malloc returned.
RecordsRoundedUp(file) ==
    IF file.torn THEN Append(file.records, "garbage") ELSE file.records

\* file_size / sizeof(Product) records
WholeRecords(file) == file.records

\* load_stock: all of the whole records, or NULL when there are none, or
\* when open, malloc or read fails.
LoadOutcomes(file) == {WholeRecords(file), NullStock}

\* write() in save_stock: everything, or a part of it.
CompleteWrite(stock) == [records |-> stock, torn |-> FALSE]

ShortWrites(stock) ==
    {[records |-> SubSeq(stock, 1, n), torn |-> t] :
        n \in 0..(Len(stock) - 1), t \in BOOLEAN}

=============================================================================
