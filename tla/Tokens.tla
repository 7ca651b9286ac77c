------------------------------- MODULE Tokens -------------------------------
(* The tokens of the parser and the tables it asks about them: which token is *)
(* an operator, of which precedence, and which one a program may overload.    *)
(* A token is its type: spelling and value are left out, but for the names    *)
(* self, super, Self and Super, which the parser tells from other names.      *)
EXTENDS Integers, FiniteSets

Eof == "Eof"

ClassKinds == {"Element", "Quark", "Transient", "Union"}

\* BuiltinTypeIdent stands for the eight built-in types.
TypeIdents == {"TypeIdent", "SelfClass", "SuperClass"}
TypeStart == TypeIdents \cup {"Local", "BuiltinTypeIdent"}
Idents == {"Ident", "Self", "Super"}

Literals == {"True", "False", "Number", "Char", "String", "ClassName"}

\* The type operators.
TypeOps == {"MinOf", "MaxOf", "SizeOf", "LengthOf", "ClassIdOf", "ConstantOf",
            "PositionOf", "AtomOf", "InstanceOf"}

Opening == {"ParenL", "BraceL", "BracketL"}
Closing == {"ParenR", "BraceR", "BracketR"}
Closer == [ParenL |-> "ParenR", BraceL |-> "BraceR", BracketL |-> "BracketR"]

\* Operators between two operands, by precedence from the loosest: what the
\* code calls operators includes a call, a subscript and a member access.
AssignOps == {"Equal", "PlusEqual", "MinusEqual", "AstEqual", "SlashEqual",
              "PercentEqual", "LessLessEqual", "GreaterGreaterEqual", "AmpEqual",
              "CaretEqual", "PipeEqual"}
BinaryByPrec ==
    << AssignOps, {"Quest"}, {"PipePipe"}, {"AmpAmp"}, {"Pipe"}, {"Caret"}, {"Amp"},
       {"EqualEqual", "ExclEqual"}, {"Less", "LessEqual", "Greater", "GreaterEqual"},
       {"LessLess", "GreaterGreater"}, {"Plus", "Minus"}, {"Ast", "Slash", "Percent"},
       {}, {"ParenL", "BracketL", "Period"} >>
BinaryOps == UNION {BinaryByPrec[p] : p \in DOMAIN BinaryByPrec}

PrefixOps == {"Plus", "Minus", "PlusPlus", "MinusMinus", "Excl", "Tilde"}
SuffixOps == {"PlusPlus", "MinusMinus", "Is", "As"}

\* The precedence of a token in each of the three places.
BinaryPrec(t) == CHOOSE p \in DOMAIN BinaryByPrec : t \in BinaryByPrec[p]
PrefixPrec(t) == IF t \in {"Plus", "Minus"} THEN 13 ELSE 14
SuffixPrec(t) == IF t \in {"Is", "As"} THEN 14 ELSE 13
CastPrec == 13

\* The least precedence an operator's right operand may have.
RightPrec(t) == BinaryPrec(t) + (IF t \in AssignOps THEN 0 ELSE 1)

Overloadable ==
    (BinaryOps \cup PrefixOps \cup SuffixOps) \ {"ParenL", "Period", "Quest", "Is", "As"}
=============================================================================
