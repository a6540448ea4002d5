-------------------------------- MODULE Types --------------------------------
(***************************************************************************)
(* The types of the language (type.hpp, type.cpp): when two of them are    *)
(* equal, when a value of one may be assigned to another, what members a   *)
(* type has, and the LLVM type values of it have in memory.                *)
(*                                                                         *)
(* A type is a record. What the compiler tells apart by the address of a   *)
(* node (structs, enums, distinct aliases) is told apart by its name here: *)
(* no two of a program have one. Structs may refer to themselves through   *)
(* pointers, so their fields are looked up by name, in the constant Fields.*)
(***************************************************************************)
EXTENDS Integers, Sequences, FiniteSets

CONSTANTS Fields    \* of each named struct: a sequence of [name, type]

NoType   == [kind |-> "none"]
Void     == [kind |-> "void"]
Str      == [kind |-> "str"]
RangeT   == [kind |-> "range"]
Packed   == [kind |-> "packed"]
Unresolved(name)    == [kind |-> "unresolved", name |-> name]
IntType(bits, signed) == [kind |-> "integer", bits |-> bits, signed |-> signed]
Float(bits)         == [kind |-> "float", bits |-> bits, signed |-> TRUE]
Bool                == [kind |-> "bool", bits |-> 1, signed |-> FALSE]
Char(signed)        == [kind |-> "char", bits |-> 8, signed |-> signed]
Ptr(inner)          == [kind |-> "pointer", inner |-> inner]
Slice(inner)        == [kind |-> "slice", inner |-> inner]
\* `members' are the names of the first elements; the size may be Unsized.
Unsized == -1
Arr(size, inner, members) ==
    [kind |-> "array", size |-> size, inner |-> inner, members |-> members]
Struct(name)        == [kind |-> "struct", name |-> name]
Anon(fields)        == [kind |-> "anon", fields |-> fields]
Enum(name)          == [kind |-> "enum", name |-> name]
Alias(name, distinct, target) ==
    [kind |-> "alias", name |-> name, distinct |-> distinct, target |-> target]
\* `params' are records [type, mut]: mut is the set of immutable positions.
Fn(params, return)  == [kind |-> "fn", params |-> params, return |-> return]

I32 == IntType(32, TRUE)
U32 == IntType(32, FALSE)

\* VOID_POINTER_TYPE, the type of `nil': the constructor of PointerType that is used
\* for it leaves its kind an integer of 64 bits, while its methods are a pointer's.
Nil == [kind |-> "nil", inner |-> Void]

-----------------------------------------------------------------------------
(* Classes of types *)

\* The kind dyn_cast looks at.
KindOf(t) == CASE t = Nil -> "integer" [] t.kind = "anon" -> "struct" [] OTHER -> t.kind

IntegralKinds == {"integer", "pointer", "float", "bool", "str", "char"}
PlainKinds == {"integer", "float", "bool", "char"}

Bits(t)   == IF t.kind \in PlainKinds THEN t.bits ELSE 64
Signed(t) == IF t.kind \in PlainKinds THEN t.signed ELSE TRUE

\* get_real_type: one level of alias is taken off.
RealType(t) == IF t.kind = "alias" THEN t.target ELSE t

\* Aliases ask their target; StrType is a pointer to char.
RECURSIVE Bottom(_)
Bottom(t) == IF t.kind = "alias" THEN Bottom(t.target) ELSE t

IsPtr(t)   == Bottom(t).kind \in {"pointer", "str", "nil"}
IsInt(t)   == Bottom(t).kind = "integer"
IsArray(t) == Bottom(t).kind \in {"array", "slice"}
Inner(t) ==
    LET b == Bottom(t)
    IN  CASE b.kind \in {"pointer", "nil", "array", "slice"} -> b.inner
          [] b.kind = "str" -> Char(TRUE)
          [] OTHER -> NoType

FieldsOf(t) == IF t.kind = "anon" THEN t.fields ELSE Fields[t.name]

-----------------------------------------------------------------------------
(* Equality and assignability *)

RECURSIVE IsEqual(_, _)

\* StructType::is_equal when one of the two is anonymous: as many fields as both
\* have, and the name of a field is compared with the name of the other struct.
StructurallyEqual(a, b) ==
    LET name == IF b.kind = "anon" THEN "" ELSE b.name
        fa   == FieldsOf(a)
        fb   == FieldsOf(b)
    IN  \A i \in DOMAIN fa \cap DOMAIN fb :
            fa[i].name = name \/ IsEqual(fa[i].type, fb[i].type)

FnEqual(a, b) ==
    /\ Len(a.params) = Len(b.params) /\ IsEqual(a.return, b.return)
    /\ \A i \in DOMAIN a.params :
          /\ IsEqual(a.params[i].type, b.params[i].type)
          /\ a.params[i].mut = b.params[i].mut

AliasEqual(a, b) ==
    IF a.distinct THEN b = a /\ IsEqual(a.target, b.target)
    ELSE IsEqual(a.target, RealType(b))

\* A pointer to void equals every pointer.
PointerEqual(a, b) ==
    LET real == RealType(b)
    IN  /\ KindOf(real) = "pointer"
        /\ \/ IsEqual(a.inner, real.inner)
           \/ IsEqual(real.inner, Void) \/ IsEqual(a.inner, Void)

\* Arrays of one size are equal whatever their elements are.
ArrayEqual(a, b) ==
    LET real == RealType(b)
    IN  /\ real.kind = "array"
        /\ \/ real.size = a.size
           \/ real.size = Unsized /\ IsEqual(real.inner, a.inner)

SliceEqual(a, b) == IsArray(b) /\ IsEqual(a.inner, Inner(b))

StructEqual(a, b) ==
    LET real == RealType(b)
    IN  IF KindOf(real) = "struct" /\ "anon" \in {a.kind, real.kind}
        THEN StructurallyEqual(a, real) ELSE a = b

IntegralEqual(a, b) == KindOf(b) = a.kind /\ Bits(b) = a.bits /\ Signed(b) = a.signed

\* is_equal of each class. It is not symmetric: only the other type is looked
\* through if it is an alias, and by some classes only.
IsEqual(a, b) ==
    CASE a.kind = "unresolved" -> FALSE
      [] a.kind = "packed" -> TRUE
      [] a.kind \in {"void", "str", "range"} -> KindOf(b) = a.kind
      [] a.kind \in PlainKinds -> IntegralEqual(a, b)
      [] a.kind = "alias" -> AliasEqual(a, b)
      [] a.kind \in {"pointer", "nil"} -> PointerEqual(a, b)
      [] a.kind = "array" -> ArrayEqual(a, b)
      [] a.kind = "slice" -> SliceEqual(a, b)
      [] a.kind \in {"struct", "anon"} -> StructEqual(a, b)
      [] a.kind = "enum" -> a = b
      [] a.kind = "fn" -> RealType(b).kind = "fn" /\ FnEqual(a, RealType(b))

CheckTypeEquality(a, b) == IsEqual(a, b) \/ IsEqual(b, a)

\* can_coerce_into: integral types into every integral type that is as wide, arrays
\* into every slice.
RECURSIVE CanCoerceInto(_, _)
CanCoerceInto(a, b) ==
    LET real == RealType(b)
    IN  CASE a.kind = "alias" -> CanCoerceInto(a.target, b)
          [] a.kind \in PlainKinds -> KindOf(real) \in IntegralKinds /\ Bits(real) >= a.bits
          [] a.kind = "array" -> real.kind = "slice"
          [] OTHER -> FALSE

\* is_assignable_from: a variable of type `to' may be initialised with a `from'.
IsAssignableFrom(from, to) ==
    CheckTypeEquality(from, to) \/ CanCoerceInto(to, from) \/ CanCoerceInto(from, to)

-----------------------------------------------------------------------------
(* Members and memory *)

\* The element of an array that has a name, or 0: find_if, then the test of the size.
MemberIndex(a, name) ==
    LET hits == {i \in DOMAIN a.members : a.members[i] = name}
        first == CHOOSE i \in hits : \A j \in hits : i <= j
    IN  IF hits = {} \/ first > a.size THEN 0 ELSE first

\* The members of arrays and slices: two that all have, and the named elements.
ArrayMember(t, name) ==
    IF name = "length" THEN U32
    ELSE IF name = "ptr" THEN Ptr(t.inner)
    ELSE IF t.kind = "array" /\ MemberIndex(t, name) > 0 THEN t.inner
    ELSE NoType

StructMember(t, name) ==
    LET hits == {i \in DOMAIN FieldsOf(t) : FieldsOf(t)[i].name = name}
    IN  IF hits = {} THEN NoType
        ELSE FieldsOf(t)[CHOOSE i \in hits : \A j \in hits : i <= j].type

\* get_member: the type of a member, or NoType. Pointers have the members of what
\* they point to.
RECURSIVE GetMember(_, _)
GetMember(t, name) ==
    CASE t.kind = "alias" -> GetMember(t.target, name)
      [] t.kind \in {"pointer", "nil"} -> GetMember(t.inner, name)
      [] t.kind \in {"array", "slice"} -> ArrayMember(t, name)
      [] t.kind \in {"struct", "anon"} -> StructMember(t, name)
      [] OTHER -> NoType

\* get_llvm_type. Pointers are opaque; all floats are of 32 bits; structs are found
\* by name, and all those without a name share one.
RECURSIVE Layout(_)
Layout(t) ==
    CASE t.kind = "alias" -> Layout(t.target)
      [] t.kind \in {"integer", "bool", "char"} -> <<"int", t.bits>>
      [] t.kind = "float" -> <<"float">>
      [] t.kind \in {"pointer", "nil", "str", "fn"} -> <<"ptr">>
      [] t.kind = "array" -> <<"array", t.size, Layout(t.inner)>>
      [] t.kind = "slice" -> <<"slice">>
      [] t.kind = "struct" -> <<"struct", t.name>>
      [] t.kind = "anon" -> <<"struct", "">>
      [] t.kind = "enum" -> <<"int", 32>>
      [] OTHER -> <<t.kind>>
=============================================================================
