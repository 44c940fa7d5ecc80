---------------------------- MODULE TypeDescriptor ----------------------------
(***************************************************************************)
(* Type descriptor decls in gogo-tree.cc, across the packages of a link.   *)
(*                                                                         *)
(* Each package is compiled on its own (packages are taken in order; the   *)
(* compilations share nothing).  Within one, a descriptor is requested     *)
(* either by Named_object::get_tree for a named type of the package (the  *)
(* type and the pointer to it) or by some expression that needs it.        *)
(* A request goes through the per-type cache (Type::type_descriptor,       *)
(* outside this repository), then build_type_descriptor_decl, which looks *)
(* up the hash table of unnamed types, creates and stores the decl, and    *)
(* decides its location; a decl that is defined here is then filled by     *)
(* the kind-specific builder, which requests the descriptors of the        *)
(* component types, and finished by finish_type_descriptor_decl.          *)
(* The nested requests are an explicit call stack.                        *)
(*                                                                         *)
(* The components are requested in the builder's order, derived from the *)
(* type's kind and structure.  A decl is identified by its assembler name *)
(* (type_descriptor_decl_name, unnamed_type_descriptor_decl_name).  After *)
(* every package is compiled the link resolves the names.                 *)
(***************************************************************************)
EXTENDS Integers, Sequences, FiniteSets, TLC

SeqX == INSTANCE SequencesExt

CONSTANTS
  Pkgs,         \* the packages of the link, compiled in order 1..Len
  Types,        \* the Type objects of the program
  Named,        \* the named types among them
  Builtin,      \* the builtin named types (int, string, ...)
  Owner,        \* the package defining each non-builtin named type
  TypeName,     \* no->name() of each named type
  InFunction,   \* the unpacked name of the function declaring a named type, "" at package level
  PkgName,      \* the name of each package
  UniquePrefix, \* the unique prefix (-fgo-prefix) of each package
  PtrTo,        \* points_to() of each type, or NoType
  PtrOf,        \* the type *T of each package-level named type T
  Shape,        \* the mangled structure of each type: identical unnamed types share it
  Kind,         \* the kind of each type (of the underlying type for a named one)
  Elem,         \* element of an array, slice, channel or map, argument of ..., or NoType
  Key,          \* key type of a map
  Fields,       \* field types of a struct, method types of an interface, in order
  Recv,         \* receiver type of a function type, or NoType
  Params,       \* parameter types of a function type, in order
  Results,      \* result types of a function type, in order
  Methods,      \* Methods[t]: methods of a named type, [rank, type, value, ambiguous]
  Uses,         \* the types whose descriptors the code of a package may request
  Ifaces,       \* the interface types that named types are converted to
  Hidden,       \* the interfaces with a hidden (unexported) method
  Impl,         \* the pairs <<interface, named type>> where the type implements it
  ImtName,      \* the assembler name "__go_imt_I__T" of each pair's table
  Convs,        \* Convs[p]: the pairs converted by the code of package p
  NoType

ASSUME Pkgs = 1..Cardinality(Pkgs)
ASSUME Builtin \subseteq Named /\ Named \subseteq Types
ASSUME Owner \in [Named \ Builtin -> Pkgs]
ASSUME PtrTo \in [Types -> Types \cup {NoType}] /\ NoType \notin Types
ASSUME TypeName \in [Named -> STRING] /\ InFunction \in [Named \ Builtin -> STRING]
ASSUME PkgName \in [Pkgs -> STRING] /\ UniquePrefix \in [Pkgs -> STRING]
ASSUME PtrOf \in [{t \in Named \ Builtin : InFunction[t] = ""} -> Types \ Named]
ASSUME \A t \in DOMAIN PtrOf : PtrTo[PtrOf[t]] = t
ASSUME \A t \in Types : PtrTo[t] # NoType <=> Kind[t] = "ptr"
\* The methods of a type, identified by the rank of their (packed) name.
ASSUME \A t \in Named : \A m1, m2 \in Methods[t] : m1.rank = m2.rank => m1 = m2
ASSUME Uses \in [Pkgs -> SUBSET Types]
ASSUME Hidden \subseteq Ifaces /\ Impl \subseteq Ifaces \X (Named \ Builtin)
ASSUME Convs \in [Pkgs -> SUBSET Impl] /\ DOMAIN ImtName = Impl
\* Only the package that defines a hidden method can name it, so only its
\* types implement an interface with a hidden method.
ASSUME \A pr \in Impl, pr2 \in Impl :
         pr[1] \in Hidden /\ pr[1] = pr2[1] => Owner[pr[2]] = Owner[pr2[2]]

Unnamed == Types \ Named
UnnamedShapes == {Shape[t] : t \in Unnamed}
\* The named types declared at package level by package p.
Local(p) == {t \in DOMAIN PtrOf : Owner[t] = p}

(* unnamed_type_descriptor_decl_name: "__go_td_" and the mangled name.    *)
UnnamedDeclName(t) == "__go_td_" \o Shape[t]

\* Mutant: the package is left out of the name.
NamedDeclNameNoPkg(t) ==
  "__go_tdn_" \o (IF t \in Builtin \/ InFunction[t] = "" THEN "" ELSE InFunction[t] \o ".")
              \o TypeName[t]

(* type_descriptor_decl_name: a builtin type is "__go_tdn_" and its name; *)
(* any other is qualified by the unique prefix and name of its package   *)
(* and, for a type declared in a function, by the function's name alone. *)
NamedDeclName(t) ==
  "__go_tdn_" \o (IF t \in Builtin THEN ""
                 ELSE UniquePrefix[Owner[t]] \o "." \o PkgName[Owner[t]] \o "."
                      \o (IF InFunction[t] = "" THEN "" ELSE InFunction[t] \o "."))
              \o TypeName[t]

\* The assembler name of the descriptor decl.
Sym(t) == IF t \in Named THEN NamedDeclName(t) ELSE UnnamedDeclName(t)
Syms == {Sym(t) : t \in Types} \cup {ImtName[pr] : pr \in Impl}

-----------------------------------------------------------------------------
(* The descriptors the builder of a defined descriptor requests, in the  *)
(* order it requests them.                                                *)

(* uncommon_type_information and type_method_table: a named type lists    *)
(* its value methods, a pointer to a named type all the methods of that  *)
(* type (type_descriptor_constructor's methods_type); ambiguous methods   *)
(* are left out.                                                          *)
TableMethods(t) ==
  IF t \in Named THEN {m \in Methods[t] : ~m.ambiguous /\ m.value}
  ELSE IF Kind[t] = "ptr" /\ PtrTo[t] \in Named
       THEN {m \in Methods[PtrTo[t]] : ~m.ambiguous}
       ELSE {}

(* type_method_table sorts the methods by their packed name (Sort_methods) *)
(* and type_method_table_entry requests each method's type descriptor.    *)
MethodTableRequests(t) ==
  LET sorted == SeqX!SetToSortSeq(TableMethods(t), LAMBDA a, b : a.rank < b.rank)
  IN [i \in 1..Len(sorted) |-> sorted[i].type]

(* function_type_params: the receiver, passed as a pointer, then the      *)
(* parameters (__in); function_type_descriptor_decl then the results      *)
(* (__out).                                                               *)
FunctionParts(t) ==
  (IF Recv[t] = NoType THEN <<>>
   ELSE IF Kind[Recv[t]] = "ptr" THEN <<Recv[t]>> ELSE <<PtrOf[Recv[t]]>>)
  \o Params[t] \o Results[t]

\* array_ and slice_type_descriptor_decl: the element type.
ElementParts(t) == <<Elem[t]>>

\* channel_type_descriptor_decl: the element type.
ChannelParts(t) == <<Elem[t]>>

\* map_type_descriptor_decl: the key type, then the value type.
MapParts(t) == <<Key[t], Elem[t]>>

\* struct_type_fields: each field's type, in order.
StructParts(t) == Fields[t]

\* interface_type_methods: each method's type, in order.
InterfaceParts(t) == Fields[t]

\* dotdotdot_type_descriptor_decl: the argument type, when there is one.
DotdotdotParts(t) == IF Elem[t] = NoType THEN <<>> ELSE <<Elem[t]>>

(* The kind-specific builder, chosen by the type (Type::type_descriptor); *)
(* pointer_type_descriptor_decl requests the pointed-to type.             *)
KindParts(t) ==
  CASE Kind[t] = "ptr"       -> <<PtrTo[t]>>
    [] Kind[t] \in {"array", "slice"} -> ElementParts(t)
    [] Kind[t] = "chan"      -> ChannelParts(t)
    [] Kind[t] = "map"       -> MapParts(t)
    [] Kind[t] = "struct"    -> StructParts(t)
    [] Kind[t] = "iface"     -> InterfaceParts(t)
    [] Kind[t] = "func"      -> FunctionParts(t)
    [] Kind[t] = "dotdotdot" -> DotdotdotParts(t)
    [] OTHER                 -> <<>>

\* The common part (type_descriptor_constructor) comes first.
Components(t) == MethodTableRequests(t) \o KindParts(t)

\* Identical unnamed types have identical structure.
ASSUME \A t1, t2 \in Types \ Named :
         Shape[t1] = Shape[t2] => Components(t1) = Components(t2)

Linkages == {"external", "comdat", "protected", "static"}
Decl == [sym : Syms, link : Linkages, fin : BOOLEAN]

VARIABLES
  todo,         \* requests the code of each package still has to make
  tdecl,        \* tdecl[p][t]: the decl stored in type t (index in decls[p]), 0 if none
  hash,         \* hash[p][s]: type_descriptor_decls_ entry for unnamed structure s, 0 if none
  decls,        \* decls[p]: the decls built, in order
  stack         \* stack[p]: the nested requests in progress

vars == <<todo, tdecl, hash, decls, stack>>

-----------------------------------------------------------------------------
(* Named_object::get_tree for a named type of this package requests the   *)
(* descriptor of the type and of the pointer to it.                        *)
NamedTypeRequestsNoPtr(t) == <<t>>
NamedTypeRequests(t) == <<t, PtrOf[t]>>

(* The interface method tables a package builds for its own types: the   *)
(* tables of an interface with hidden methods are left to the package of  *)
(* the type (spec section 4.3), which builds them whether or not its own *)
(* code converts.                                                          *)
OwnerItables(p) == {pr \in Impl : pr[1] \in Hidden /\ Owner[pr[2]] = p}

(* The requests a package makes: get_tree of each of its named types, the *)
(* descriptors its code uses, and the interface method tables its         *)
(* conversions need.                                                       *)
Requests(p) ==
  {[kind |-> "get_tree", pending |-> NamedTypeRequests(t)] : t \in Local(p)}
  \cup {[kind |-> "use", pending |-> <<t>>] : t \in Uses[p]}
  \cup {[kind |-> "itable", pending |-> <<>>, pair |-> pr] : pr \in Convs[p] \cup OwnerItables(p)}

\* Mutant: a named type of another package is defined here too.
LocationNoForeign(p, t) ==
  IF t \in Builtin \/ t \in Unnamed THEN "common" ELSE "defined"

(* type_descriptor_location. *)
Location(p, t) ==
  IF t \in Named
  THEN IF t \in Builtin THEN "common"
       ELSE IF Owner[t] # p THEN "undefined" ELSE "defined"
  ELSE IF PtrTo[t] # NoType /\ PtrTo[t] \in Named \ Builtin /\ Owner[PtrTo[t]] # p
       THEN "undefined"
       ELSE "common"

\* Mutant: the type's own cache is never consulted.
CachedNever(p, t) == FALSE

(* Type::type_descriptor returns the decl already stored in the type.     *)
Cached(p, t) == tdecl[p][t] # 0

\* Packages are compiled one after the other.
Done(p) == todo[p] = {} /\ stack[p] = <<>>
Current(p) == ~Done(p) /\ \A q \in Pkgs : q < p => Done(q)

Top(p) == stack[p][Len(stack[p])]
Pop(p) == [stack EXCEPT ![p] = SubSeq(@, 1, Len(@) - 1)]
SetTop(p, f) == [stack EXCEPT ![p][Len(stack[p])] = f]

Init ==
  /\ todo = [p \in Pkgs |-> Requests(p)]
  /\ tdecl = [p \in Pkgs |-> [t \in Types |-> 0]]
  /\ hash = [p \in Pkgs |-> [s \in UnnamedShapes |-> 0]]
  /\ decls = [p \in Pkgs |-> <<>>]
  /\ stack = [p \in Pkgs |-> <<>>]

-----------------------------------------------------------------------------
\* The code of package p makes one of its requests.
Start(p) ==
  /\ Current(p)
  /\ stack[p] = <<>>
  /\ \E r \in todo[p] :
       /\ r.kind # "itable"
       /\ todo' = [todo EXCEPT ![p] = @ \ {r}]
       /\ stack' = [stack EXCEPT ![p] = <<[t |-> NoType, pending |-> r.pending, d |-> 0]>>]
  /\ UNCHANGED <<tdecl, hash, decls>>

\* The frame on top asks for the descriptor of one more type; unless the
\* type already holds a decl, a call of the decl builder begins.
Request(p) ==
  /\ Current(p)
  /\ stack[p] # <<>>
  /\ Top(p).d # -1
  /\ Top(p).pending # <<>>
  /\ LET c == Head(Top(p).pending)
         rest == [Top(p) EXCEPT !.pending = Tail(@)] IN
       stack' = IF Cached(p, c)
                THEN SetTop(p, rest)
                ELSE [SetTop(p, rest) EXCEPT ![p] = Append(@, [t |-> c, pending |-> <<>>, d |-> -1])]
  /\ UNCHANGED <<todo, tdecl, hash, decls>>

\* Mutant: the hash table of unnamed types is not consulted.
BuildDeclNoHash(p) ==
  LET t == Top(p).t
      d == Len(decls[p]) + 1
      loc == Location(p, t)
  IN
  /\ Current(p)
  /\ stack[p] # <<>>
  /\ Top(p).d = -1
  /\ tdecl' = [tdecl EXCEPT ![p][t] = d]
  /\ hash' = hash
  /\ decls' = [decls EXCEPT ![p] = Append(@, [sym |-> Sym(t), fin |-> FALSE,
                  link |-> IF loc = "undefined" THEN "external" ELSE "static"])]
  /\ stack' = IF loc = "undefined" THEN Pop(p)
              ELSE SetTop(p, [t |-> t, pending |-> Components(t), d |-> d])
  /\ UNCHANGED todo

\* Mutant: named types go through the hash table as well.
BuildDeclHashAll(p) ==
  LET t == Top(p).t
      d == Len(decls[p]) + 1
      loc == Location(p, t)
      s == Shape[t]
      hit == s \in DOMAIN hash[p] /\ hash[p][s] # 0
  IN
  /\ Current(p)
  /\ stack[p] # <<>>
  /\ Top(p).d = -1
  /\ IF hit
     THEN /\ tdecl' = [tdecl EXCEPT ![p][t] = hash[p][s]]
          /\ stack' = Pop(p)
          /\ UNCHANGED <<hash, decls>>
     ELSE /\ tdecl' = [tdecl EXCEPT ![p][t] = d]
          /\ hash' = [hash EXCEPT ![p] = @ @@ (s :> d)]
          /\ decls' = [decls EXCEPT ![p] = Append(@, [sym |-> Sym(t), fin |-> FALSE,
                          link |-> IF loc = "undefined" THEN "external" ELSE "static"])]
          /\ stack' = IF loc = "undefined" THEN Pop(p)
                      ELSE SetTop(p, [t |-> t, pending |-> Components(t), d |-> d])
  /\ UNCHANGED todo

(* build_type_descriptor_decl: an unnamed type whose structure is in the  *)
(* hash table takes that decl and returns false.  Otherwise a new decl is *)
(* made and stored, in the type and in the hash table, before anything   *)
(* else; a decl for another package's descriptor is an external reference *)
(* and the call returns false, any other is static and is built.          *)
BuildDecl(p) ==
  LET t == Top(p).t
      d == Len(decls[p]) + 1
      loc == Location(p, t)
      hit == t \in Unnamed /\ hash[p][Shape[t]] # 0
  IN
  /\ Current(p)
  /\ stack[p] # <<>>
  /\ Top(p).d = -1
  /\ IF hit
     THEN /\ tdecl' = [tdecl EXCEPT ![p][t] = hash[p][Shape[t]]]
          /\ stack' = Pop(p)
          /\ UNCHANGED <<hash, decls>>
     ELSE /\ tdecl' = [tdecl EXCEPT ![p][t] = d]
          /\ hash' = IF t \in Unnamed THEN [hash EXCEPT ![p][Shape[t]] = d] ELSE hash
          /\ decls' = [decls EXCEPT ![p] = Append(@, [sym |-> Sym(t), fin |-> FALSE,
                          link |-> IF loc = "undefined" THEN "external" ELSE "static"])]
          /\ stack' = IF loc = "undefined" THEN Pop(p)
                      ELSE SetTop(p, [t |-> t, pending |-> Components(t), d |-> d])
  /\ UNCHANGED todo

(* finish_type_descriptor_decl, once every component is requested: the   *)
(* descriptor of a common type is one-only (comdat), any other is public  *)
(* with protected visibility.                                              *)
Finish(p) ==
  LET f == Top(p) IN
  /\ Current(p)
  /\ stack[p] # <<>>
  /\ f.d > 0
  /\ f.pending = <<>>
  /\ decls' = [decls EXCEPT ![p][f.d] =
                 [@ EXCEPT !.fin = TRUE,
                           !.link = IF Location(p, f.t) = "common" THEN "comdat" ELSE "protected"]]
  /\ stack' = Pop(p)
  /\ UNCHANGED <<todo, tdecl, hash>>

\* The request of the package's code is answered.
Return(p) ==
  /\ Current(p)
  /\ stack[p] # <<>>
  /\ Len(stack[p]) = 1
  /\ Top(p).d = 0
  /\ Top(p).pending = <<>>
  /\ stack' = Pop(p)
  /\ UNCHANGED <<todo, tdecl, hash, decls>>

\* Mutant: a table of an interface with a hidden method is defined wherever
\* it is needed.
ItableLinkNoOwnerTest(p, i, t) == IF i \in Hidden THEN "protected" ELSE "comdat"

\* Mutant: every table of another package's type is left to that package.
ItableLinkNoHiddenTest(p, i, t) ==
  IF Owner[t] # p THEN "external" ELSE IF i \in Hidden THEN "protected" ELSE "comdat"

(* interface_method_table_for_type: a table of an interface with a hidden *)
(* method for a type of another package is only an external reference;  *)
(* any other is defined here, public with protected visibility when the  *)
(* interface has a hidden method (the one definition), one-only (comdat) *)
(* otherwise.                                                              *)
ItableLink(p, i, t) ==
  IF i \in Hidden /\ Owner[t] # p THEN "external"
  ELSE IF i \in Hidden THEN "protected" ELSE "comdat"

(* The code of package p needs the method table of a pair: the decl is  *)
(* built at once (the entries are the methods' function decls, no type   *)
(* descriptor is requested).  A table touches no descriptor state, so the *)
(* tables are taken after the package's descriptor requests: the other   *)
(* orders only permute the package's decls.                              *)
Itable(p) ==
  /\ Current(p)
  /\ stack[p] = <<>>
  /\ \A r \in todo[p] : r.kind = "itable"
  /\ \E r \in todo[p] :
       LET link == ItableLink(p, r.pair[1], r.pair[2]) IN
       /\ r.kind = "itable"
       /\ todo' = [todo EXCEPT ![p] = @ \ {r}]
       /\ decls' = [decls EXCEPT ![p] = Append(@, [sym |-> ImtName[r.pair],
                       link |-> link, fin |-> link # "external"])]
  /\ UNCHANGED <<tdecl, hash, stack>>

Next == \E p \in Pkgs : Start(p) \/ Request(p) \/ BuildDecl(p) \/ Finish(p) \/ Return(p) \/ Itable(p)

Spec == Init /\ [][Next]_vars /\ WF_vars(Next)

AllDone == \A p \in Pkgs : Done(p)

-----------------------------------------------------------------------------
TypeOK ==
  /\ \A p \in Pkgs : todo[p] \subseteq Requests(p)
  /\ \A p \in Pkgs : tdecl[p] \in [Types -> 0..Len(decls[p])]
  /\ \A p \in Pkgs : decls[p] \in Seq(Decl)
  /\ \A p \in Pkgs : hash[p] \in [UnnamedShapes -> 0..Len(decls[p])]

(* Each decl built by a compilation gets its own assembler name: the hash *)
(* table of unnamed types (build_type_descriptor_decl) makes every Type   *)
(* object of one structure share a single "__go_td_" decl, so the object  *)
(* file never holds two definitions of one symbol.                         *)
UniqueDeclNames ==
  \A p \in Pkgs : \A i, j \in 1..Len(decls[p]) :
    i # j => decls[p][i].sym # decls[p][j].sym

(* The descriptor of a recursive type is never built twice at once: the   *)
(* decl is stored in the type before its components are requested, so a  *)
(* component that refers back to the type gets the stored decl.           *)
NoReentry ==
  \A p \in Pkgs : \A i, j \in 1..Len(stack[p]) :
    i < j /\ stack[p][i].t # NoType => stack[p][i].t # stack[p][j].t

(* Every external reference to a descriptor or an interface method table *)
(* that a package emits is defined, and finished, by some package of the *)
(* link: a named type's descriptor by its package, and the descriptor of *)
(* the pointer to it too, because get_tree requests both for every named *)
(* type; a table of an interface with a hidden method by the type's       *)
(* package.  A table of an exported interface is never left to another    *)
(* package, since nothing makes that package build it.                    *)
LinkComplete ==
  AllDone =>
    \A p \in Pkgs : \A i \in 1..Len(decls[p]) :
      decls[p][i].link = "external" =>
        \E q \in Pkgs : \E j \in 1..Len(decls[q]) :
          /\ decls[q][j].sym = decls[p][i].sym
          /\ decls[q][j].link \in {"comdat", "protected"}
          /\ decls[q][j].fin

(* No descriptor or method table has two strong definitions in the link: *)
(* a protected definition is made only by the package that owns the named *)
(* type, and a name is never defined both protected and one-only.          *)
OneDefinition ==
  \A p, q \in Pkgs : \A i \in 1..Len(decls[p]) : \A j \in 1..Len(decls[q]) :
    /\ decls[p][i].sym = decls[q][j].sym
    /\ decls[p][i].link = "protected"
    /\ decls[q][j].link \in {"comdat", "protected"}
    => p = q
=============================================================================
