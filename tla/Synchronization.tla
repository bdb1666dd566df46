--------------------------- MODULE Synchronization ---------------------------
(* How a data object gets its synchronisation primitive: the hints given to  *)
(* the resource builder, and the choice made from them                       *)
(* (synchronization.h, primitive_matrix.h, resource/builder.cpp).            *)

IsolationLevel == {"ExclusiveWriter", "Exclusive", "NoIsolation"}
Protocol == {"Any", "Queue", "Latch", "OLFIT", "TransactionalMemory"}
AccessFrequency == {"excessive", "high", "normal", "unused"}
ReadWriteRatio == {"heavy_read", "mostly_read", "balanced", "mostly_written", "heavy_written"}

Primitive == {"None", "ExclusiveLatch", "ScheduleAll", "ReaderWriterLatch",
              "ScheduleWriter", "OLFIT"}

Hint == [isolation : IsolationLevel, protocol : Protocol,
         frequency : AccessFrequency, ratio : ReadWriteRatio]

IsOptimistic(primitive) == primitive \in {"ScheduleWriter", "OLFIT"}

(* PrimitiveMatrix::matrix for isolation_level::ExclusiveWriter. *)
ExclusiveWriterMatrix(ratio, frequency) ==
    LET hot == frequency \in {"excessive", "high"} IN
    CASE ratio = "heavy_read"     -> "ScheduleWriter"
      [] ratio = "mostly_read"    -> IF hot THEN "ScheduleWriter" ELSE "OLFIT"
      [] ratio = "balanced"       -> "OLFIT"
      [] ratio = "mostly_written" -> IF hot THEN "OLFIT" ELSE "ReaderWriterLatch"
      [] ratio = "heavy_written"  -> IF hot THEN "ScheduleAll" ELSE "ReaderWriterLatch"

(* PrimitiveMatrix::matrix for isolation_level::Exclusive. *)
ExclusiveMatrix(frequency) ==
    IF frequency \in {"excessive", "high"} THEN "ScheduleAll" ELSE "ExclusiveLatch"

SelectPrimitive(isolation, frequency, ratio) ==
    CASE isolation = "NoIsolation"     -> "None"
      [] isolation = "ExclusiveWriter" -> ExclusiveWriterMatrix(ratio, frequency)
      [] isolation = "Exclusive"       -> ExclusiveMatrix(frequency)

(* Mutant: the protocol is honoured, the strict isolation level is not. *)
PrimitiveIgnoringLevel(hint) ==
    CASE hint.protocol = "Any"   -> SelectPrimitive(hint.isolation, hint.frequency, hint.ratio)
      [] hint.protocol = "Latch" -> "ReaderWriterLatch"
      [] hint.protocol = "OLFIT" -> "OLFIT"
      [] OTHER                   -> "ScheduleWriter"

(* Builder::isolation_level_to_synchronization_primitive. *)
PrimitiveFor(hint) ==
    CASE hint.protocol = "Any" ->
            SelectPrimitive(hint.isolation, hint.frequency, hint.ratio)
      [] hint.protocol # "Any" /\ hint.isolation = "ExclusiveWriter" ->
            (CASE hint.protocol = "Latch" -> "ReaderWriterLatch"
               [] hint.protocol = "OLFIT" -> "OLFIT"
               [] OTHER                   -> "ScheduleWriter")
      [] hint.protocol # "Any" /\ hint.isolation = "Exclusive" ->
            IF hint.protocol = "Latch" THEN "ExclusiveLatch" ELSE "ScheduleAll"
      [] hint.protocol # "Any" /\ hint.isolation = "NoIsolation" -> "None"
=============================================================================
