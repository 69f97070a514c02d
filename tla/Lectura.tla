---- MODULE Lectura ----
(***************************************************************************)
(* How the LFS reads the records of a file (LissandraFileSystem.c): they   *)
(* are written one after the other and cut in blocks wherever a block ends *)
(* (armarBufferConRegistros, escribirVariosBloques), and read by a machine *)
(* that goes from field to field and from block to block, to get all of    *)
(* them (leerBloquesConsecutivos) or those of a key                        *)
(* (leerBloquesConsecutivosUnaKey). The sizes of the fields are scaled. A  *)
(* definition whose name has Sin... after that of another, and is called a *)
(* mutant, is not of the code.                                             *)
(***************************************************************************)
EXTENDS Integers, Sequences, FiniteSets, SequencesExt

CONSTANTS Keys, Timestamps, \* numbers
          BlockSizes,       \* what BLOCK_SIZE may be
          TamTimestamp,     \* bytes of a timestamp (8)
          TamKey,           \* bytes of a key (2)
          TamanioValue,     \* TAMANIO_VALUE of the configuration
          Todas,            \* no key: all the records
          MaxRegistros      \* bound: records of a file

ASSUME LecturaAssumption ==
  /\ Timestamps \subseteq Nat \ {0} /\ Todas \notin Keys
  /\ TamTimestamp \in Nat \ {0} /\ TamKey \in Nat \ {0} /\ TamanioValue \in Nat \ {0}
  /\ TamTimestamp <= TamanioValue + 1 /\ TamKey <= TamanioValue + 1
  /\ \A b \in BlockSizes : b \in Nat /\ b >= TamanioValue
  /\ MaxRegistros \in Nat

VARIABLES archivo,        \* the records of the file, of each the length of its value
          block_size,
          buscada, es_unica,
          estado, anterior,
          bloques_leidos, offset_bloque, tam_bloque, offset_campo, offset_total, num_separador,
          aux_campo_leyendo, aux_value,
          registro,       \* the one that is being read
          registros_leidos, retval

entrada == <<archivo, block_size, buscada, es_unica>>
offsets == <<offset_bloque, offset_campo, offset_total>>
bloque == <<bloques_leidos, tam_bloque>>
auxiliares == <<aux_campo_leyendo, aux_value>>
salida == <<registros_leidos, retval>>
vars == <<entrada, estado, anterior, bloque, offsets, num_separador, auxiliares, registro, salida>>

-----------------------------------------------------------------------------
(* What was written. A byte is of a field of a record, or one of these.    *)

PuntoYComa == <<";", 0, 0>>
BarraN == <<"\n", 0, 0>>
Nulo == <<"\\0", 0, 0>>
Otro == <<"otro", 0, 0>>

\* the high bytes of a timestamp are zero
BytesTimestamp(t) == [p \in 1..TamTimestamp |-> IF p = 1 THEN <<"timestamp", t, p>> ELSE Nulo]
BytesKey(k) == [p \in 1..TamKey |-> <<"key", k, p>>]
BytesValue(i) == [p \in 1..archivo[i].largo |-> <<"value", i, p>>]

\* armarBufferConRegistros: the i-th record, the first n, all
Texto(i) ==
  BytesTimestamp(archivo[i].timestamp) \o <<PuntoYComa>> \o BytesKey(archivo[i].key)
    \o <<PuntoYComa>> \o BytesValue(i) \o <<BarraN>>
Textos(n) == FlattenSeq([i \in 1..n |-> Texto(i)])
Buffer == Textos(Len(archivo))

tam_total == Len(Buffer)
CantidadBloques == (tam_total + block_size - 1) \div block_size

\* escribirVariosBloques: all are full but the last
Menor(a, b) == IF a <= b THEN a ELSE b
Bloque(b) == SubSeq(Buffer, (b - 1) * block_size + 1, Menor(b * block_size, tam_total))

-----------------------------------------------------------------------------
Seguir == estado # "fin" /\ offset_total < tam_total
Fin == ~Seguir

Estados == {"leer", "timestamp", "key", "value", "separador", "fin"}
Posiciones == 0..TamanioValue
Vacio == [timestamp |-> << >>, key |-> << >>, value |-> << >>]

Registro(i) == [timestamp |-> BytesTimestamp(archivo[i].timestamp), key |-> BytesKey(archivo[i].key),
                value |-> BytesValue(i)]

(* Where the value of the i-th record starts, how much of it its block     *)
(* has, and how much is in the next block.                                 *)
Inicio(i) == Len(Textos(i - 1)) + TamTimestamp + TamKey + 2
EnBloque(i) == block_size - (Inicio(i) % block_size)
EnElSiguiente(i) == Menor(block_size, tam_total - Inicio(i) - EnBloque(i))

(* The value, or its \n, goes on in another block, which has fewer bytes   *)
(* than a value may have more, and which would be needed after those.      *)
Cortado(i) ==
  /\ EnBloque(i) < TamanioValue /\ EnBloque(i) <= archivo[i].largo
  /\ EnElSiguiente(i) < TamanioValue - EnBloque(i)
  /\ EnElSiguiente(i) <= archivo[i].largo

SinCortes == \A i \in DOMAIN archivo : ~Cortado(i)

(* No field is read past the end of its block or of its buffer. In a file  *)
(* without such a value, a number that was read is one that was written,   *)
(* and no value is read as empty (strlen of the first of no parts would    *)
(* end the process).                                                       *)
TypeOK ==
  /\ estado \in Estados /\ anterior \in Estados
  /\ bloques_leidos \in 0..CantidadBloques
  /\ 0 <= offset_bloque /\ offset_bloque <= tam_bloque /\ tam_bloque <= block_size
  /\ offset_campo \in Posiciones /\ offset_total \in 0..tam_total
  /\ num_separador \in 0..2
  /\ SinCortes =>
       /\ registro.timestamp \in {BytesTimestamp(t) : t \in Timestamps} \cup {<< >>}
       /\ registro.key \in {BytesKey(k) : k \in Keys} \cup {<< >>}
       /\ \A r \in Range(registros_leidos) : r.value # << >>

\* records of a file: for a partition, one of each key
EsUnica(a) == \A i, j \in DOMAIN a : a[i].key = a[j].key => i = j
Registros == [timestamp : Timestamps, key : Keys, largo : 1..TamanioValue]

(* What malloc gives has any bytes. A file has the blocks its records need *)
(* (Bloques has the ones that were left without them).                     *)
Init ==
  /\ archivo \in UNION {[1..n -> Registros] : n \in 0..MaxRegistros}
  /\ block_size \in BlockSizes
  /\ buscada \in Keys \cup {Todas}
  /\ es_unica \in BOOLEAN
  /\ (es_unica => (EsUnica(archivo) /\ buscada # Todas))
  /\ estado = "leer" /\ anterior = "timestamp"
  /\ bloques_leidos = 0 /\ tam_bloque = 0
  /\ offset_bloque = 0 /\ offset_campo = 0 /\ offset_total = 0 /\ num_separador = 0
  /\ aux_campo_leyendo = [p \in Posiciones |-> Otro]
  /\ \E basura \in {Otro, Nulo, BarraN} : aux_value = [p \in Posiciones |-> basura]
  /\ registro = Vacio /\ registros_leidos = << >> /\ retval = Vacio

-----------------------------------------------------------------------------
(* The steps of the loop.                                                  *)

Pasar(e) == estado' = e /\ anterior' = estado

\* memcpy to a buffer, from a position on
Copiar(buffer, desde, bytes) ==
  [p \in DOMAIN buffer |-> IF p - desde + 1 \in DOMAIN bytes THEN bytes[p - desde + 1] ELSE buffer[p]]

Primeros(buffer, n) == [p \in 1..n |-> buffer[p - 1]]

\* mutant: after another block was read, the next field is a timestamp
LeerBloqueSinAnterior ==
  /\ estado = "leer" /\ bloques_leidos < CantidadBloques
  /\ bloques_leidos' = bloques_leidos + 1
  /\ tam_bloque' = Len(Bloque(bloques_leidos + 1))
  /\ offset_bloque' = 0
  /\ estado' = IF num_separador = 2 THEN "timestamp" ELSE anterior
  /\ UNCHANGED <<entrada, anterior, offset_campo, offset_total, num_separador, auxiliares, registro,
                 salida>>

\* EST_LEER: the field that was cut goes on in the next block
LeerBloque ==
  /\ estado = "leer" /\ bloques_leidos < CantidadBloques
  /\ bloques_leidos' = bloques_leidos + 1
  /\ tam_bloque' = Len(Bloque(bloques_leidos + 1))
  /\ offset_bloque' = 0
  /\ estado' = anterior
  /\ UNCHANGED <<entrada, anterior, offset_campo, offset_total, num_separador, auxiliares, registro,
                 salida>>

Quedan == tam_bloque - offset_bloque

\* the next n bytes of the block, after those of the field that were read before
Leidos(n) ==
  Copiar(aux_campo_leyendo, offset_campo,
         SubSeq(Bloque(bloques_leidos), offset_bloque + 1, offset_bloque + n))

AvanzarBloque(n) == offset_bloque' = offset_bloque + n /\ offset_total' = offset_total + n

\* mutant: of a number that was cut the part that was read is forgotten
LeerNumeroSinCampo(e, tam) ==
  LET falta == tam - offset_campo IN
  /\ estado = e
  /\ IF falta <= Quedan
       THEN /\ aux_campo_leyendo' = Leidos(falta)
            /\ AvanzarBloque(falta)
            /\ registro' = [registro EXCEPT ![e] = Primeros(aux_campo_leyendo', tam)]
            /\ Pasar("separador") /\ UNCHANGED offset_campo
       ELSE /\ aux_campo_leyendo' = Leidos(Quedan)
            /\ AvanzarBloque(Quedan)
            /\ Pasar("leer") /\ UNCHANGED <<registro, offset_campo>>
  /\ UNCHANGED <<entrada, bloque, num_separador, aux_value, salida>>

\* EST_TIMESTAMP, EST_KEY: what is left of the field, or what is left of the block
LeerNumero(e, tam) ==
  LET falta == tam - offset_campo IN
  /\ estado = e
  /\ IF falta <= Quedan
       THEN /\ aux_campo_leyendo' = Leidos(falta)
            /\ AvanzarBloque(falta)
            /\ registro' = [registro EXCEPT ![e] = Primeros(aux_campo_leyendo', tam)]
            /\ Pasar("separador") /\ UNCHANGED offset_campo
       ELSE /\ aux_campo_leyendo' = Leidos(Quedan)
            /\ AvanzarBloque(Quedan)
            /\ offset_campo' = offset_campo + Quedan
            /\ Pasar("leer") /\ UNCHANGED registro
  /\ UNCHANGED <<entrada, bloque, num_separador, aux_value, salida>>

\* how long the string is, and where its first \n is (string_contains, string_split)
Largo(v) == CHOOSE n \in DOMAIN v : v[n] = Nulo /\ \A p \in 0..n - 1 : v[p] # Nulo
FinesDeLinea(v) == {p \in 0..Largo(v) - 1 : v[p] = BarraN}
Corte(v) == IF FinesDeLinea(v) = {} THEN Largo(v)
            ELSE CHOOSE p \in FinesDeLinea(v) : \A q \in FinesDeLinea(v) : p <= q

\* a value is read up to the size a value may have, if the block has as much...
ValueEntra == TamanioValue - offset_campo <= Quedan

(* ... or up to the end of the block. Of the field as many bytes are       *)
(* copied as were read of this block, from the first, and not as many as   *)
(* were read of the field: after a cut the rest is what the buffer had.    *)
ValueLeido ==
  IF ValueEntra
    THEN Copiar(aux_value, 0, Append(Primeros(aux_campo_leyendo', TamanioValue), Nulo))
    ELSE Copiar(Copiar(aux_value, 0, Primeros(aux_campo_leyendo', Quedan)),
                offset_campo + Quedan, <<Nulo>>)

NumeroDe(bytes) == CHOOSE t \in Timestamps : bytes = BytesTimestamp(t)
MasNuevo(r) == retval = Vacio \/ NumeroDe(r.timestamp) > NumeroDe(retval.timestamp)

\* all the records, or the newest of a key, or the first of it
Agregar(r) ==
  IF buscada = Todas
    THEN registros_leidos' = Append(registros_leidos, r) /\ Pasar("separador") /\ UNCHANGED retval
    ELSE /\ retval' = IF r.key = BytesKey(buscada) /\ (es_unica \/ MasNuevo(r)) THEN r ELSE retval
         /\ Pasar(IF r.key = BytesKey(buscada) /\ es_unica THEN "fin" ELSE "separador")
         /\ UNCHANGED registros_leidos

\* EST_VALUE
LeerValue ==
  /\ estado = "value"
  /\ aux_campo_leyendo' = Leidos(IF ValueEntra THEN TamanioValue - offset_campo ELSE Quedan)
  /\ aux_value' = ValueLeido
  /\ IF ValueEntra \/ FinesDeLinea(aux_value') # {}
       THEN LET r == [registro EXCEPT !.value = Primeros(aux_value', Corte(aux_value'))]
            IN /\ AvanzarBloque(Corte(aux_value') - offset_campo)
               /\ registro' = r /\ Agregar(r)
               /\ UNCHANGED offset_campo
       ELSE /\ AvanzarBloque(Quedan)
            /\ offset_campo' = offset_campo + Quedan
            /\ Pasar("leer") /\ UNCHANGED <<registro, salida>>
  /\ UNCHANGED <<entrada, bloque, num_separador>>

\* EST_SEP
LeerSeparador ==
  /\ estado = "separador"
  /\ IF Quedan = 0
       THEN Pasar("leer") /\ UNCHANGED <<offsets, num_separador>>
       ELSE /\ AvanzarBloque(1) /\ offset_campo' = 0
            /\ num_separador' = (num_separador + 1) % 3
            /\ Pasar(CASE num_separador = 0 -> "key" [] num_separador = 1 -> "value"
                       [] OTHER -> "timestamp")
  /\ UNCHANGED <<entrada, bloque, auxiliares, registro, salida>>

\* the loop, the same in both functions
Next ==
  /\ Seguir
  /\ \/ LeerBloque \/ LeerNumero("timestamp", TamTimestamp) \/ LeerNumero("key", TamKey)
     \/ LeerValue \/ LeerSeparador

Spec == Init /\ [][Next]_vars /\ WF_vars(Next)

-----------------------------------------------------------------------------
\* of the records of the key, the newest that was written first
Buscado ==
  LET suyos == {i \in DOMAIN archivo : archivo[i].key = buscada}
      nuevos == {i \in suyos : \A j \in suyos : archivo[i].timestamp >= archivo[j].timestamp}
  IN IF suyos = {} THEN Vacio ELSE Registro(CHOOSE i \in nuevos : \A j \in nuevos : i <= j)

\* every record that was written, in its order, or the newest of the key; those before a cut
LeidoHastaElCorte ==
  /\ SinCortes =>
       IF buscada = Todas THEN registros_leidos = [i \in DOMAIN archivo |-> Registro(i)]
       ELSE retval = Buscado
  /\ buscada = Todas =>
       \A i \in DOMAIN archivo : (\A j \in 1..i : ~Cortado(j)) =>
         i \in DOMAIN registros_leidos /\ registros_leidos[i] = Registro(i)

(* The reading ends with every record that was written, in its order, or   *)
(* with the newest of the key, wherever the blocks cut the fields and the  *)
(* separators, in a file without such a value. In one that has it, with    *)
(* all the records before it.                                              *)
LeeHastaElCorte == <>(Fin /\ LeidoHastaElCorte)

(* "Voy a obtener todos los registros de los bloques indicados".           *)
LeeTodos ==
  Fin /\ buscada = Todas => registros_leidos = [i \in DOMAIN archivo |-> Registro(i)]
====
