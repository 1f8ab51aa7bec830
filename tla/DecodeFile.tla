----------------------------- MODULE DecodeFile -----------------------------
(***************************************************************************)
(* The first half of tools/decoder/decodetree.py: parse_file reads the     *)
(* lines of a .decode file, joins continued ones and keeps track of the    *)
(* groups in braces; parse_field, parse_arguments and parse_generic make   *)
(* fields, argument sets, formats and instruction patterns of them.        *)
(*                                                                         *)
(* A line is its indentation and its tokens, and says whether it ends in a *)
(* backslash.  A mask is a set of bit positions, and bits are those of     *)
(* them that are one.  Fields, argument sets and formats are sequences in  *)
(* the order of the dictionaries, and are referred to by their position,   *)
(* so that two of the same content are still two; 0 is None.               *)
(***************************************************************************)
EXTENDS Fields, FiniteSets

CONSTANTS
  Width,   \* insnwidth
  Files    \* the files to read: sequences of lines

VARIABLES
  file,       \* the lines not read yet
  toks,       \* the tokens of the declaration being read or parsed
  indent,     \* the indentation of its first line
  nesting,    \* parent_pat and nesting_pats: the open groups, innermost last
  fields,     \* the declared fields
  arguments,  \* the argument sets, declared or inferred
  formats,    \* the formats, declared or inferred
  cur,        \* what parse_generic has gathered of its line
  pats,       \* all patterns and groups, in the order they begin
  stage       \* "read", "declare", "generic", then "prop", or "error"

fileVars == <<file, toks, indent, nesting>>
declVars == <<fields, arguments, formats>>
parseVars == <<file, toks, indent, nesting, fields, arguments, formats, cur, pats>>

Bits == 0..(Width - 1)
Digit == {"0", "1", ".", "-"}

(* A token by what parse_file and the parse functions take it for.         *)
Token ==
  [kind : {"{", "}", "[", "]", "junk"}]
  \union [kind : {"%", "&", "@", "name", "typed"}, name : STRING]
  \union [kind : {"import"}, name : STRING, of : STRING]
  \union [kind : {"const"}, name : STRING, val : Int]
  \union [kind : {"span"}, name : STRING, len : Nat, sign : BOOLEAN]
  \union [kind : {"pos"}, pos : Nat, len : Nat, sign : BOOLEAN]
  \union [kind : {"function"}, func : STRING]
  \union [kind : {"bits"}, digits : Seq(Digit)]

Line == [blank : BOOLEAN, indent : Nat, toks : Seq(Token), more : BOOLEAN]

ASSUME FilesAssumption == Width \in Nat /\ Files \subseteq Seq(Line)

Names(s) == {s[k].name : k \in DOMAIN s}
At(s, n) == {k \in DOMAIN s : s[k].name = n}
First(S) == CHOOSE k \in S : \A j \in S : k <= j

Parent == IF nesting = <<>> THEN 0 ELSE nesting[Len(nesting)]

NoLine ==
  [kind |-> "", name |-> "", mask |-> {}, bits |-> {}, undef |-> {}, width |-> 0,
   flds |-> <<>>, arg |-> 0, fmt |-> 0]

Init ==
  /\ file \in Files
  /\ toks = <<>> /\ indent = 0 /\ nesting = <<>>
  /\ fields = <<>> /\ arguments = <<>> /\ formats = <<>>
  /\ cur = NoLine
  /\ pats = <<>>
  /\ stage = "read"

Fail == stage' = "error" /\ UNCHANGED parseVars

-----------------------------------------------------------------------------
(* parse_file: reading.                                                    *)

IsEmpty(l) == l.toks = <<>> /\ ~ l.more

SkipLine ==
  /\ stage = "read" /\ file # <<>> /\ toks = <<>> /\ IsEmpty(Head(file))
  /\ Head(file).blank \/ Head(file).indent = 2 * Len(nesting)
  /\ file' = Tail(file)
  /\ UNCHANGED <<toks, indent, nesting, declVars, cur, pats, stage>>

MisplacedComment ==
  /\ stage = "read" /\ file # <<>> /\ toks = <<>> /\ IsEmpty(Head(file))
  /\ ~ Head(file).blank /\ Head(file).indent # 2 * Len(nesting)
  /\ Fail

ReadLine ==
  /\ stage = "read" /\ file # <<>>
  /\ ~ (toks = <<>> /\ IsEmpty(Head(file)))
  /\ toks' = toks \o Head(file).toks
  /\ indent' = IF toks = <<>> THEN Head(file).indent ELSE indent
  /\ stage' = IF Head(file).more THEN "read" ELSE "declare"
  /\ file' = Tail(file)
  /\ UNCHANGED <<nesting, declVars, cur, pats>>

(* What a last line that is continued has gathered is dropped.             *)
EndOfFile ==
  /\ stage = "read" /\ file = <<>>
  /\ stage' = IF nesting = <<>> THEN "prop" ELSE "error"
  /\ UNCHANGED parseVars

-----------------------------------------------------------------------------
(* parse_file: groups.                                                     *)

name == Head(toks)
Declares(kinds) == stage = "declare" /\ name.kind \in kinds

IsInc(g) == g # 0 /\ pats[g].kind = "inc"

Group(kind) ==
  [kind |-> kind, name |-> "", parent |-> Parent, fmt |-> 0, flds |-> <<>>,
   mask |-> {}, bits |-> {}, undef |-> {}]

OpenGroup ==
  /\ Declares({"{", "["})
  /\ indent = 2 * Len(nesting) /\ Len(toks) = 1
  /\ pats' = Append(pats, Group(IF name.kind = "{" THEN "inc" ELSE "exc"))
  /\ nesting' = Append(nesting, Len(pats) + 1)
  /\ toks' = <<>> /\ stage' = "read"
  /\ UNCHANGED <<file, indent, declVars, cur>>

Closes ==
  /\ Len(toks) = 1
  /\ (name.kind = "}") = IsInc(Parent)
  /\ nesting # <<>>
  /\ indent = 2 * (Len(nesting) - 1)

CloseGroup ==
  /\ Declares({"}", "]"}) /\ Closes
  /\ nesting' = SubSeq(nesting, 1, Len(nesting) - 1)
  /\ toks' = <<>> /\ stage' = "read"
  /\ UNCHANGED <<file, indent, declVars, cur, pats>>

BadGroup ==
  /\ \/ Declares({"{", "["}) /\ (indent # 2 * Len(nesting) \/ Len(toks) # 1)
     \/ Declares({"}", "]"}) /\ ~ Closes
  /\ Fail

(* No declaration begins like this, or its indentation is not the group's. *)
BadDeclaration ==
  /\ stage = "declare" /\ name.kind \notin {"{", "}", "[", "]"}
  /\ name.kind \notin {"%", "&", "@", "name"} \/ indent # 2 * Len(nesting)
  /\ Fail

Starts(kinds) == Declares(kinds) /\ indent = 2 * Len(nesting)

-----------------------------------------------------------------------------
(* parse_field and parse_arguments.                                        *)

(* The tokens of a kind behind the name, in their order.                   *)
OfKind(kind) ==
  LET upto[k \in 1..Len(toks)] ==
        IF k = 1 THEN <<>>
        ELSE IF toks[k].kind = kind THEN Append(upto[k - 1], toks[k]) ELSE upto[k - 1]
  IN upto[Len(toks)]

SoundField(subs, funcs) ==
  /\ \A k \in 2..Len(toks) : toks[k].kind \in {"pos", "function"}
  /\ Len(funcs) <= 1
  /\ subs # <<>> \/ funcs # <<>>
  /\ \A k \in DOMAIN subs : subs[k].pos + subs[k].len <= Width
  /\ \A j, k \in DOMAIN subs :
       j # k => PartMask(subs[j]) \intersect PartMask(subs[k]) = {}

(* The results of a declaration: none when it is refused.                  *)
NewField ==
  LET subs == OfKind("pos")
      funcs == OfKind("function")
      f == FieldIn([k \in DOMAIN subs |-> Part(subs[k].pos, subs[k].len, subs[k].sign)],
                   IF funcs = <<>> THEN "" ELSE funcs[1].func)
  IN {g \in {[name |-> name.name, f |-> f]} :
        SoundField(subs, funcs) /\ name.name \notin Names(fields)}

ParseField ==
  /\ Starts({"%"})
  /\ \E f \in NewField : fields' = Append(fields, f)
  /\ toks' = <<>> /\ stage' = "read"
  /\ UNCHANGED <<file, indent, nesting, arguments, formats, cur, pats>>

ArgumentSet(nm, flds, ints) == [name |-> nm, fields |-> flds, ints |-> ints]

SoundArguments ==
  /\ \A k \in 2..Len(toks) : toks[k].kind \in {"name", "typed"}
  /\ \A j, k \in 2..Len(toks) : j # k => toks[j].name # toks[k].name
  /\ name.name \notin Names(arguments)

(* ints: no argument has a type of its own.                                *)
ParseArguments ==
  /\ Starts({"&"}) /\ SoundArguments
  /\ arguments' =
       Append(arguments,
              ArgumentSet(name.name, [k \in 1..(Len(toks) - 1) |-> toks[k + 1].name],
                          \A k \in 2..Len(toks) : toks[k].kind = "name"))
  /\ toks' = <<>> /\ stage' = "read"
  /\ UNCHANGED <<file, indent, nesting, fields, formats, cur, pats>>

BadFieldOrArguments ==
  /\ \/ Starts({"%"}) /\ NewField = {}
     \/ Starts({"&"}) /\ ~ SoundArguments
  /\ Fail

-----------------------------------------------------------------------------
(* parse_generic: the tokens, each put below the bits before it.           *)

StartGeneric ==
  /\ Starts({"@", "name"})
  /\ cur' = [NoLine EXCEPT !.kind = name.kind, !.name = name.name]
  /\ toks' = Tail(toks) /\ stage' = "generic"
  /\ UNCHANGED <<file, indent, nesting, declVars, pats>>

PlacedBelow(digits, ds) ==   \* mutant: a token may go on below bit 0
  {b \in - Width..(Width - 1) : /\ Width - cur.width - b \in DOMAIN digits
                                /\ digits[Width - cur.width - b] \in ds}

Placed(digits, ds) ==
  {b \in Bits : /\ Width - cur.width - b \in DOMAIN digits
                /\ digits[Width - cur.width - b] \in ds}

WithField(nm, f) ==
  {c \in {[cur EXCEPT !.flds = Append(@, [name |-> nm, f |-> f])]} :
     nm \notin Names(cur.flds)}

(* What a token makes of cur: nothing when it is refused.                  *)
After(t) ==
  CASE t.kind = "&" ->
         {[cur EXCEPT !.arg = k] : k \in {j \in At(arguments, t.name) : cur.arg = 0}}
    [] t.kind = "@" ->
         {[cur EXCEPT !.fmt = k] : k \in {j \in At(formats, t.name) : cur.fmt = 0}}
    [] t.kind = "%" -> UNION {WithField(t.name, fields[k].f) : k \in At(fields, t.name)}
    [] t.kind = "import" -> UNION {WithField(t.name, fields[k].f) : k \in At(fields, t.of)}
    [] t.kind = "const" -> WithField(t.name, Const(t.val))
    [] t.kind = "span" ->
         {[c EXCEPT !.width = @ + t.len] :
            c \in {d \in WithField(t.name, FieldIn(<<Part(Width - cur.width - t.len, t.len,
                                                         t.sign)>>, "")) :
                     t.len + cur.width <= Width}}
    [] t.kind = "bits" ->
         {[cur EXCEPT !.mask = @ \union Placed(t.digits, {"0", "1"}),
                      !.bits = @ \union Placed(t.digits, {"1"}),
                      !.undef = @ \union Placed(t.digits, {"-"}),
                      !.width = @ + Len(t.digits)]}
    [] OTHER -> {}

TakeToken ==
  /\ stage = "generic" /\ toks # <<>>
  /\ cur' \in After(Head(toks))
  /\ toks' = Tail(toks)
  /\ UNCHANGED <<file, indent, nesting, declVars, pats, stage>>

BadToken == stage = "generic" /\ toks # <<>> /\ After(Head(toks)) = {} /\ Fail

-----------------------------------------------------------------------------
(* parse_generic: a format or a pattern from what was gathered.            *)

Ends(kind) == stage = "generic" /\ toks = <<>> /\ cur.kind = kind

MaskOf(flds) == UNION {FieldMask(flds[k].f) : k \in DOMAIN flds}
ArgNames(a) == {a.fields[k] : k \in DOMAIN a.fields}

(* infer_argument_set: a set with these arguments, or a new one.           *)
argFits ==
  {k \in DOMAIN arguments :
     /\ arguments[k].ints
     /\ Len(arguments[k].fields) = Len(cur.flds)
     /\ Names(cur.flds) \subseteq ArgNames(arguments[k])}
Infers == cur.arg = 0 /\ argFits = {}
ArgumentsAfter ==
  IF Infers THEN Append(arguments,
                        ArgumentSet("", [k \in DOMAIN cur.flds |-> cur.flds[k].name], TRUE))
            ELSE arguments
base == IF cur.arg # 0 THEN cur.arg
        ELSE IF argFits # {} THEN First(argFits) ELSE Len(arguments) + 1

Format(nm, b, masks, flds) ==
  [name |-> nm, base |-> b, mask |-> masks.mask, bits |-> masks.bits,
   undef |-> masks.undef, flds |-> flds, width |-> cur.width]

(* No bit may be of two kinds, and a pattern's bits are all of one.        *)
SoundMasks(m, fieldmask) ==
  /\ fieldmask \intersect m.mask = {}
  /\ fieldmask \intersect m.undef = {}
  /\ m.mask \intersect m.undef = {}

AcceptsFormat ==
  /\ cur.width \in {0, Width}
  /\ cur.fmt = 0
  /\ cur.arg # 0 => Names(cur.flds) \subseteq ArgNames(arguments[cur.arg])
  /\ cur.name \notin Names(formats)
  /\ SoundMasks(cur, MaskOf(cur.flds))

ParseFormat ==
  /\ Ends("@") /\ AcceptsFormat
  /\ arguments' = ArgumentsAfter
  /\ formats' = Append(formats, Format(cur.name, base, cur, cur.flds))
  /\ stage' = "read"
  /\ UNCHANGED <<fileVars, fields, cur, pats>>

(* infer_format: the first format that has these fields, or a new one.  It *)
(* takes over all fields, also the constant ones, "c is ConstField" being  *)
(* never true.                                                             *)
SameFields(a, b) ==
  /\ Len(a) = Len(b)
  /\ \A k \in DOMAIN a : \E j \in At(b, a[k].name) : SameField(a[k].f, b[j].f)

alike ==
  {k \in DOMAIN formats :
     /\ cur.arg # 0 => formats[k].base = cur.arg
     /\ MaskOf(formats[k].flds) = MaskOf(cur.flds)
     /\ formats[k].width = cur.width}
fmtFits == {k \in alike : SameFields(cur.flds, formats[k].flds)}

NewFormat == cur.fmt = 0 /\ fmtFits = {}
FormatsAfter ==
  IF NewFormat THEN Append(formats, Format("", base, NoLine, cur.flds)) ELSE formats
format == IF cur.fmt # 0 THEN cur.fmt
          ELSE IF fmtFits # {} THEN First(fmtFits) ELSE Len(formats) + 1

(* The comparison with a format can fail on the way to the one that fits:  *)
(* at a field behind others that are the same.                             *)
FailsAt(a, b) ==
  /\ Len(a) = Len(b)
  /\ \E k \in DOMAIN a :
       /\ \E j \in At(b, a[k].name) : Incomparable(a[k].f, b[j].f)
       /\ \A i \in 1..(k - 1) : \E j \in At(b, a[i].name) : SameField(a[i].f, b[j].f)
FailsToCompare ==
  /\ cur.fmt = 0
  /\ \E k \in alike : /\ FailsAt(cur.flds, formats[k].flds)
                      /\ \A j \in fmtFits : k < j

(* A named format gives its bits to the pattern; an inferred one has none  *)
(* to give, or is another pattern's.                                       *)
FormatMasks == IF cur.fmt # 0 THEN formats[cur.fmt] ELSE NoLine
FormatFlds == IF cur.fmt # 0 THEN formats[cur.fmt].flds ELSE <<>>

PatternNoBits ==   \* mutant: the format's bits are not taken over
  [kind |-> "pattern", name |-> cur.name, parent |-> Parent, fmt |-> format,
   flds |-> IF cur.fmt # 0 THEN cur.flds ELSE <<>>, mask |-> cur.mask \union FormatMasks.mask,
   bits |-> cur.bits, undef |-> cur.undef \union FormatMasks.undef]

Pattern ==
  [kind |-> "pattern", name |-> cur.name, parent |-> Parent, fmt |-> format,
   flds |-> IF cur.fmt # 0 THEN cur.flds ELSE <<>>,
   mask |-> cur.mask \union FormatMasks.mask,
   bits |-> cur.bits \union FormatMasks.bits,
   undef |-> cur.undef \union FormatMasks.undef]

(* Every argument is set once, by the format or by the pattern.            *)
SetsArguments(a, own, given) ==
  /\ own \subseteq ArgNames(a)
  /\ own \intersect given = {}
  /\ ArgNames(a) \subseteq own \union given

PatternFields == MaskOf(cur.flds) \union MaskOf(FormatFlds)

AcceptsPattern ==
  /\ cur.width = Width
  /\ ~ FailsToCompare
  /\ cur.fmt # 0 => /\ cur.arg = 0
                    /\ cur.mask \intersect FormatMasks.mask = {}
                    /\ formats[cur.fmt].width = Width
  /\ SetsArguments(ArgumentsAfter[FormatsAfter[format].base],
                   Names(Pattern.flds), Names(FormatsAfter[format].flds))
  /\ SoundMasks(Pattern, PatternFields)
  /\ PatternFields \union Pattern.mask \union Pattern.undef = Bits

ParsePattern ==
  /\ Ends("name") /\ AcceptsPattern
  /\ arguments' = IF NewFormat THEN ArgumentsAfter ELSE arguments
  /\ formats' = FormatsAfter
  /\ pats' = Append(pats, Pattern)
  /\ stage' = "read"
  /\ UNCHANGED <<fileVars, fields, cur>>

BadLine ==
  /\ \/ Ends("@") /\ ~ AcceptsFormat
     \/ Ends("name") /\ ~ AcceptsPattern
  /\ Fail

-----------------------------------------------------------------------------
Parse ==
  \/ SkipLine \/ MisplacedComment \/ ReadLine \/ EndOfFile
  \/ OpenGroup \/ CloseGroup \/ BadGroup \/ BadDeclaration
  \/ ParseField \/ ParseArguments \/ BadFieldOrArguments
  \/ StartGeneric \/ TakeToken \/ BadToken
  \/ ParseFormat \/ ParsePattern \/ BadLine
=============================================================================
