---------------------------- MODULE VendorTable ----------------------------
(***************************************************************************)
(* Whose radio an address is: app/oui.py.  An address is the digits there  *)
(* are of it, in three parts: the six of a 24-bit block, the seventh that  *)
(* makes 28 bits, and the two that make 36.  A line of a registry is a row *)
(* of Wireshark's manuf file, whose block may have any width, or a row of  *)
(* an IEEE CSV file.                                                       *)
(***************************************************************************)
EXTENDS Integers, Sequences, SequencesExt, FiniteSets, FiniteSetsExt

CONSTANT BuiltIn   \* what the program brings along: prefixes of 24 bits and vendors

NoVendor == "unknown"

\* _parse_oui_line.  Of the CSV rows none is read: those that have a registry name
\* begin with its letter, and the branch for them is taken by rows that begin with a
\* digit of an address.  A prefix too short to be a block is refused.
Record(line) ==
  IF line.form = "csv" \/ line.prefix = <<>> THEN {}
  ELSE {[prefix |-> line.prefix, bits |-> line.bits, vendor |-> line.vendor]}

\* The part of a prefix a table of blocks is kept under: as much of it as there is.
Stem(prefix, parts) == SubSeq(prefix, 1, Min({parts, Len(prefix)}))

\* Faulty: a block of more than 24 bits is kept as one of 36.
PartsCoarse(bits) == IF bits <= 24 THEN 1 ELSE 3

Parts(bits) == IF bits <= 24 THEN 1 ELSE IF bits <= 28 THEN 2 ELSE 3

\* load_file: nothing is changed when no record is found, and else each record replaces
\* what the table of its width has for that block.
Records(file) ==
  FoldLeft(LAMBDA found, line : found \o SetToSeq(Record(line)), <<>>, file)

LoadFile(table, file) ==
  FoldLeft(LAMBDA t, r :
             LET n == Parts(r.bits) IN
             [k \in DOMAIN t \cup {<<n, Stem(r.prefix, n)>>} |->
                IF k = <<n, Stem(r.prefix, n)>> THEN r.vendor ELSE t[k]],
           table, Records(file))

Initial ==
  [k \in {<<1, p>> : p \in DOMAIN BuiltIn} |-> BuiltIn[k[2]]]

\* autoload: of the files there are, in a fixed order, the first with a record in it.
Autoload(files) ==
  LET usable == {i \in DOMAIN files : Records(files[i]) # <<>>}
  IN IF usable = {} THEN Initial ELSE LoadFile(Initial, files[Min(usable)])

\* lookup: the narrowest block first.
Lookup(table, address) ==
  LET hits == {n \in 1..Len(address) : <<n, SubSeq(address, 1, n)>> \in DOMAIN table}
  IN IF hits = {} THEN NoVendor ELSE table[<<Max(hits), SubSeq(address, 1, Max(hits))>>]

(***************************************************************************)
(* Properties                                                              *)
(***************************************************************************)

\* A row says of an address that it is in its block, when the block has a width there
\* is a table for and the row has as many digits as that takes.
Speaks(line, address) ==
  /\ line.form = "manuf" /\ line.prefix # <<>>
  /\ LET n == CASE line.bits = 24 -> 1 [] line.bits = 28 -> 2 [] line.bits = 36 -> 3
     IN Len(line.prefix) >= n /\ Len(address) >= n
        /\ SubSeq(line.prefix, 1, n) = SubSeq(address, 1, n)

\* Whatever a registry says in which order, an address is said to be of the vendor whose
\* block is the narrowest it is in, by the last of the rows on that block; of the
\* built-in table's when no row speaks of it; and of nobody's else (OuiDatabase).
VendorsAgree(files, addresses) ==
  LET usable == {i \in DOMAIN files : \E j \in DOMAIN files[i] : Record(files[i][j]) # {}}
      rows == IF usable = {} THEN <<>> ELSE files[Min(usable)]
      table == Autoload(files)
  IN \A a \in addresses :
       LET speaking == {j \in DOMAIN rows : Speaks(rows[j], a)}
           width == Max({0} \cup {rows[j].bits : j \in speaking})
           last == Max({0} \cup {j \in speaking : rows[j].bits = width})
       IN Lookup(table, a) =
            IF speaking # {} THEN rows[last].vendor
            ELSE IF a # <<>> /\ SubSeq(a, 1, 1) \in DOMAIN BuiltIn
                 THEN BuiltIn[SubSeq(a, 1, 1)] ELSE NoVendor
=============================================================================
