--------------------------- MODULE ModelRegistry ---------------------------
(***************************************************************************)
(* The metadata registry of the ORM: a sync.Map from struct types to the    *)
(* model parsed from their fields and tags.  Get parses and stores the      *)
(* default model on a miss; Register stores a model changed by options.     *)
(* Names are data: Underscore stands for the value of underscoreName on     *)
(* each Go name in use, a tag is a column name, absent or malformed.        *)
(***************************************************************************)
EXTENDS Integers, Sequences

CONSTANTS Types,       \* the Go types passed to the registry
          Struct,      \* their shape: pointer, name, table, fields (go, tag)
          Underscore,  \* underscoreName, on the Go names in use
          NoTag, BadTag

ASSUME RegistryAssumption ==
  \A T \in Types :
    /\ Struct[T].pointer \in BOOLEAN
    /\ Struct[T].name \in DOMAIN Underscore
    /\ \A n \in DOMAIN Struct[T].fields : Struct[T].fields[n].go \in DOMAIN Underscore

VARIABLE models  \* sync.Map: the model of each type, or NoModel

NoModel == [table |-> ""]

-----------------------------------------------------------------------------
(* Parsing *)

\* col is FieldMap reduced to the column names, field is ColumnMap reduced to
\* the Go names: of two fields with one column, the later has it.
ParseModel(T) ==
  LET s      == Struct[T]
      F      == DOMAIN s.fields
      Col(n) == IF s.fields[n].tag = NoTag THEN Underscore[s.fields[n].go] ELSE s.fields[n].tag
  IN  IF ~s.pointer \/ \E n \in F : s.fields[n].tag = BadTag
      THEN NoModel
      ELSE [table  |-> IF s.table = "" THEN Underscore[s.name] ELSE s.table,
            fields |-> [n \in F |-> s.fields[n].go],
            col    |-> [g \in {s.fields[n].go : n \in F} |->
                          Col(CHOOSE n \in F : s.fields[n].go = g)],
            field  |-> [c \in {Col(n) : n \in F} |->
                          s.fields[CHOOSE n \in F : /\ Col(n) = c
                                                    /\ \A l \in F : Col(l) = c => l <= n].go]]

WithTableName(m, name) == [m EXCEPT !.table = name]

\* The column is renamed where statements read it, not in ColumnMap.
WithColumnName(m, go, name) ==
  IF go \in DOMAIN m.col THEN [m EXCEPT !.col[go] = name] ELSE NoModel

Apply(m, opt) ==
  CASE m = NoModel         -> NoModel
    [] opt.kind = "table"  -> WithTableName(m, opt.name)
    [] opt.kind = "column" -> WithColumnName(m, opt.field, opt.name)

-----------------------------------------------------------------------------
(* The map *)

Stored(ms, T, m) == IF m = NoModel THEN ms ELSE [ms EXCEPT ![T] = m]

\* What Register makes of the options: an error of any of them is its result.
Configured(T, opts) ==
  LET f[n \in 0..Len(opts)] == IF n = 0 THEN ParseModel(T) ELSE Apply(f[n - 1], opts[n])
  IN  f[Len(opts)]

Register(T, opts) == models' = Stored(models, T, Configured(T, opts))

\* Mutant of Get: the default model is parsed and stored at every look-up.
GetParsing(ms, T) == Stored(ms, T, ParseModel(T))

\* Get in one piece, as seen by one goroutine: the registry afterwards.
Get(ms, T) == IF ms[T] = NoModel THEN Stored(ms, T, ParseModel(T)) ELSE ms

=============================================================================
