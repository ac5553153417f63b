------------------------------- MODULE Types --------------------------------
(***************************************************************************)
(* The physical column types of duckdb/types.go, the label the duckbox     *)
(* layout prints for each (duckdb/physical_label.go), and the groups the   *)
(* renderers of main.go put them in.                                       *)
(***************************************************************************)
EXTENDS Naturals, Sequences

Ints == {"TinyInt", "SmallInt", "Integer", "BigInt", "UTinyInt", "USmallInt",
         "UInteger", "UBigInt", "HugeInt", "UHugeInt", "IntegerLiteral"}
Floats == {"Float", "Double"}
Texts  == {"Varchar", "Blob", "StringLiteral"}

\* What duckboxIsNumericType aligns to the right.
Numeric == Ints \cup Floats \cup {"Decimal", "BigNum"}

\* Types no renderer knows: formatCell's default branch takes them.
Others == {"Invalid", "Timestamp", "Date", "Time", "Interval", "Decimal",
           "TimestampS", "TimestampMS", "TimestampNS", "Enum", "List",
           "Struct", "Map", "UUID", "Union", "Bit", "TimeTZ", "TimestampTZ",
           "Array", "Any", "BigNum", "SQLNull", "TimeNS", "Geometry"}

ColTypes == {"Boolean"} \cup Ints \cup Floats \cup Texts \cup Others

PhysicalTypeLabel ==
  [Boolean |-> "boolean", TinyInt |-> "tinyint", SmallInt |-> "smallint",
   Integer |-> "int32", BigInt |-> "int64", UTinyInt |-> "utinyint",
   USmallInt |-> "usmallint", UInteger |-> "uint32", UBigInt |-> "uint64",
   HugeInt |-> "hugeint", UHugeInt |-> "uhugeint", Float |-> "float",
   Double |-> "double", Varchar |-> "varchar", Blob |-> "blob",
   Date |-> "date", Time |-> "time", Timestamp |-> "timestamp",
   TimestampS |-> "timestamp_s", TimestampMS |-> "timestamp_ms",
   TimestampNS |-> "timestamp_ns", TimestampTZ |-> "timestamp_tz",
   TimeTZ |-> "time_tz", Interval |-> "interval", Decimal |-> "decimal",
   UUID |-> "uuid", Enum |-> "enum", List |-> "list", Struct |-> "struct",
   Map |-> "map", Array |-> "array", Union |-> "union", Bit |-> "bit",
   Any |-> "any", BigNum |-> "bignum", SQLNull |-> "null",
   StringLiteral |-> "varchar", IntegerLiteral |-> "int64",
   TimeNS |-> "time_ns", Geometry |-> "geometry", Invalid |-> "unknown"]

ASSUME LabelsTotal ==
  /\ DOMAIN PhysicalTypeLabel = ColTypes
  /\ \A type \in ColTypes : Len(PhysicalTypeLabel[type]) \in Nat \ {0}
=============================================================================
