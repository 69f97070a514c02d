---- MODULE Gossiping ----
(***************************************************************************)
(* Gossiping between the memories, and of the Kernel with them             *)
(* (Biblioteca/src/Gossiping.c; the answer is in Pool-Memorias/            *)
(* main_memoria.c). Each process has a list of memories; a thread goes     *)
(* round it, shows what it knows to each and takes what each shows. A      *)
(* memory answers with a thread per connection, which takes what it is     *)
(* shown at the same time. A definition whose name has Sin... after that   *)
(* of another, and is called a mutant, is not of the code.                 *)
(***************************************************************************)
EXTENDS Integers, Sequences, FiniteSets

CONSTANTS Memorias, Kernel,
          Apagadas,        \* the memories that never are started
          Configuraciones  \* the memories that the configuration of each process
                           \* names (that of the Kernel names one), with a bound:
                           \* the times a memory ends

Procesos == Memorias \cup {Kernel}

ASSUME GossipingAssumption ==
  /\ Kernel \notin Memorias /\ Apagadas \subseteq Memorias
  /\ Configuraciones \subseteq [semillas : [Procesos -> Seq(Memorias)], maxCaidas : Nat]
  /\ \A c \in Configuraciones : Len(c.semillas[Kernel]) = 1

VARIABLES config,  \* which configuration it is
          arriba,  \* the processes that run
          caidas,
          lista,   \* g_lista_seeds of each process
          ronda,   \* the thread of correr_gossiping of each process
          hilo     \* hilo[m][p]: the thread of m that answers p

vars == <<config, arriba, caidas, lista, ronda, hilo>>

\* seed_com_t: who (ip and port), and whether numMemoria is not -1
Seed == [mem : Memorias, alta : BOOLEAN]

\* what a thread has left of incorporar_seeds_gossiping
Trabajo == [nuevas : Seq(Seed), primera : BOOLEAN, falta : BOOLEAN]
Nada == [nuevas |-> << >>, primera |-> FALSE, falta |-> FALSE]
Mostrar(v) == [nuevas |-> v, primera |-> TRUE, falta |-> FALSE]

\* inicializar_gossiping_memoria, gossiping_Kernel
SeedsIniciales(c, p) ==
  LET otras == [i \in DOMAIN c.semillas[p] |-> [mem |-> c.semillas[p][i], alta |-> FALSE]]
  IN IF p = Kernel THEN otras ELSE <<[mem |-> p, alta |-> TRUE]>> \o otras

Quieta == [paso |-> "esperar", i |-> 0, tope |-> 0, conocidas |-> << >>, trabajo |-> Nada]
Libre == [activo |-> FALSE, trabajo |-> Nada, respuesta |-> << >>]

TypeOK ==
  /\ Kernel \in arriba /\ arriba \subseteq Procesos
  /\ config \in Configuraciones /\ caidas \in 0..config.maxCaidas
  /\ \A p \in Procesos :
       /\ lista[p] \in Seq(Seed)
       /\ p \in Memorias => lista[p][1] = [mem |-> p, alta |-> TRUE]
       /\ ronda[p].paso \in {"esperar", "armar", "conectar", "caida", "hablar", "incorporar"}
       /\ ronda[p].paso \in {"conectar", "caida", "hablar", "incorporar"} =>
            1 <= ronda[p].i /\ ronda[p].i <= ronda[p].tope /\ ronda[p].tope <= Len(lista[p])
       /\ ronda[p].conocidas \in Seq(Seed) /\ ronda[p].trabajo \in Trabajo
  /\ \A m \in Memorias, p \in Procesos :
       /\ hilo[m][p].activo \in BOOLEAN
       /\ hilo[m][p].trabajo \in Trabajo /\ hilo[m][p].respuesta \in Seq(Seed)

Init ==
  /\ config \in Configuraciones
  /\ arriba = Procesos \ Apagadas /\ caidas = 0
  /\ lista = [p \in Procesos |-> SeedsIniciales(config, p)]
  /\ ronda = [p \in Procesos |-> Quieta]
  /\ hilo = [m \in Memorias |-> [p \in Procesos |-> Libre]]

-----------------------------------------------------------------------------
(* The list.                                                               *)

\* conozco_memoria: the first with the address, 0 if there is none
Conozco(l, m) ==
  LET suyas == {i \in 1..Len(l) : l[i].mem = m}
  IN IF suyas = {} THEN 0 ELSE CHOOSE i \in suyas : \A j \in suyas : i <= j

\* armar_vector_seeds(KERNEL)
EnLinea(l) == SelectSeq(l, LAMBDA s : s.alta)

(* incorporar_seeds_gossiping, one seed at a time. Only the first, who is  *)
(* the one that speaks, gives its number. The seed is looked for and added *)
(* under the lock, but the lock is released in between (falta). A seed     *)
(* that is known stays so: those that follow are passed over at once.      *)
Resto(l, v) ==
  LET nuevos == {i \in 2..Len(v) : Conozco(l, v[i].mem) = 0}
  IN IF nuevos = {} THEN << >>
     ELSE SubSeq(v, CHOOSE i \in nuevos : \A j \in nuevos : i <= j, Len(v))

Hecho(l, w) ==
  [lista |-> l, trabajo |-> [nuevas |-> Resto(l, w.nuevas), primera |-> FALSE, falta |-> FALSE]]
Falta(l, w) == [lista |-> l, trabajo |-> [w EXCEPT !.falta = TRUE]]

\* mutant: the number of a memory that is known is not taken
MirarSinAlta(l, w) ==
  IF Conozco(l, Head(w.nuevas).mem) = 0 THEN Falta(l, w) ELSE Hecho(l, w)

\* mutant: a memory without number is not taken for known
MirarSinNumero(l, w) ==
  LET i == Conozco(l, Head(w.nuevas).mem)
  IN IF i = 0 \/ (Len(l) < 4 /\ ~l[i].alta) THEN Falta(l, w) ELSE Hecho(l, w)

Mirar(l, w) ==
  LET i == Conozco(l, Head(w.nuevas).mem)
  IN IF i = 0 THEN Falta(l, w)
     ELSE Hecho([l EXCEPT ![i].alta = @ \/ (w.primera /\ Head(w.nuevas).alta)], w)

Agregar(l, w) == Hecho(Append(l, [Head(w.nuevas) EXCEPT !.alta = w.primera /\ @]), w)

IncorporarUna(l, w) == IF w.falta THEN Agregar(l, w) ELSE Mirar(l, w)

-----------------------------------------------------------------------------
(* The round (hilo_gossiping, correr_gossiping).                           *)

Copiar(p) ==
  /\ ronda[p].paso = "esperar"
  /\ ronda' = [ronda EXCEPT ![p] =
       IF p = Kernel THEN [Quieta EXCEPT !.paso = "conectar", !.i = 1, !.tope = Len(lista[p])]
       ELSE IF Len(lista[p]) = 1 THEN Quieta
       ELSE [Quieta EXCEPT !.paso = "armar", !.tope = Len(lista[p])]]
  /\ UNCHANGED <<config, arriba, caidas, lista, hilo>>

\* armar_vector_seeds(MEMORIA); the first of the list is the memory itself
Armar(p) ==
  /\ ronda[p].paso = "armar"
  /\ ronda' = [ronda EXCEPT ![p].paso = "conectar", ![p].i = 2, ![p].conocidas = lista[p]]
  /\ UNCHANGED <<config, arriba, caidas, lista, hilo>>

\* the next memory, or the end of the round
Siguiente(r) ==
  IF r.i < r.tope THEN [r EXCEPT !.paso = "conectar", !.i = @ + 1, !.trabajo = Nada] ELSE Quieta

(* conectar_a_servidor, the handshake and enviar_gossiping; the thread of  *)
(* the memory starts, with what it answers taken before what it is shown   *)
(* (responder_gossiping).                                                  *)
Conectar(p) ==
  LET r == ronda[p]
      m == lista[p][r.i].mem
  IN /\ r.paso = "conectar"
     /\ IF m \in arriba
          THEN /\ ~hilo[m][p].activo
               /\ hilo' = [hilo EXCEPT ![m][p] = [activo |-> TRUE, respuesta |-> lista[m],
                                                  trabajo |-> Mostrar(r.conocidas)]]
               /\ ronda' = [ronda EXCEPT ![p].paso = "hablar"]
          ELSE ronda' = [ronda EXCEPT ![p].paso = "caida"] /\ UNCHANGED hilo
     /\ UNCHANGED <<config, arriba, caidas, lista>>

\* mutant: of the one before
RegistrarMemoriaCaidaSinIndice(p) ==
  /\ ronda[p].paso = "caida"
  /\ lista' = [lista EXCEPT ![p][IF ronda[p].i > 1 THEN ronda[p].i - 1 ELSE 1].alta = FALSE]
  /\ ronda' = [ronda EXCEPT ![p] = Siguiente(@)]
  /\ UNCHANGED <<config, arriba, caidas, hilo>>

\* mutant: the memory is left with its number
RegistrarMemoriaCaidaSinBorrar(p) ==
  /\ ronda[p].paso = "caida"
  /\ ronda' = [ronda EXCEPT ![p] = Siguiente(@)]
  /\ UNCHANGED <<config, arriba, caidas, lista, hilo>>

\* registrar_memoria_caida
RegistrarMemoriaCaida(p) ==
  /\ ronda[p].paso = "caida"
  /\ lista' = [lista EXCEPT ![p][ronda[p].i].alta = FALSE]
  /\ ronda' = [ronda EXCEPT ![p] = Siguiente(@)]
  /\ UNCHANGED <<config, arriba, caidas, hilo>>

\* the answer comes, or the connection is lost and the next one is tried
Recibir(p) ==
  LET m == lista[p][ronda[p].i].mem IN
  /\ ronda[p].paso = "hablar"
  /\ IF hilo[m][p].activo
       THEN /\ hilo[m][p].trabajo.nuevas = << >>
            /\ ronda' = [ronda EXCEPT ![p].paso = "incorporar",
                                      ![p].trabajo = Mostrar(hilo[m][p].respuesta)]
            /\ hilo' = [hilo EXCEPT ![m][p] = Libre]
       ELSE ronda' = [ronda EXCEPT ![p] = Siguiente(@)] /\ UNCHANGED hilo
  /\ UNCHANGED <<config, arriba, caidas, lista>>

Incorporar(p) ==
  LET t == IncorporarUna(lista[p], ronda[p].trabajo)
      r == [ronda[p] EXCEPT !.trabajo = t.trabajo]
  IN /\ ronda[p].paso = "incorporar"
     /\ lista' = [lista EXCEPT ![p] = t.lista]
     /\ ronda' = [ronda EXCEPT ![p] = IF r.trabajo.nuevas = << >> THEN Siguiente(r) ELSE r]
     /\ UNCHANGED <<config, arriba, caidas, hilo>>

-----------------------------------------------------------------------------
(* The thread that answers (hilo_cliente, responder_gossiping).            *)

Responder(m, p) ==
  LET t == IncorporarUna(lista[m], hilo[m][p].trabajo) IN
  /\ hilo[m][p].activo /\ hilo[m][p].trabajo.nuevas # << >>
  /\ lista' = [lista EXCEPT ![m] = t.lista]
  /\ hilo' = [hilo EXCEPT ![m][p].trabajo = t.trabajo]
  /\ UNCHANGED <<config, arriba, caidas, ronda>>

EsperaA(p, m) == ronda[p].paso = "hablar" /\ lista[p][ronda[p].i].mem = m

\* who asked is not there any more (DESCONECTADO)
Desconectado(m, p) ==
  /\ hilo[m][p].activo /\ hilo[m][p].trabajo.nuevas = << >>
  /\ ~EsperaA(p, m)
  /\ hilo' = [hilo EXCEPT ![m][p] = Libre]
  /\ UNCHANGED <<config, arriba, caidas, lista, ronda>>

-----------------------------------------------------------------------------
\* a memory ends, with its list and its threads, and may start again
Caer(m) ==
  /\ m \in arriba /\ caidas < config.maxCaidas
  /\ arriba' = arriba \ {m} /\ caidas' = caidas + 1
  /\ lista' = [lista EXCEPT ![m] = SeedsIniciales(config, m)]
  /\ ronda' = [ronda EXCEPT ![m] = Quieta]
  /\ hilo' = [hilo EXCEPT ![m] = [p \in Procesos |-> Libre]]
  /\ UNCHANGED config

Volver(m) ==
  /\ m \notin arriba \cup Apagadas
  /\ arriba' = arriba \cup {m}
  /\ UNCHANGED <<config, caidas, lista, ronda, hilo>>

Ronda(p) ==
  /\ p \in arriba
  /\ \/ Copiar(p) \/ Armar(p) \/ Conectar(p) \/ RegistrarMemoriaCaida(p) \/ Recibir(p)
     \/ Incorporar(p)

Atender(m, p) == Responder(m, p) \/ Desconectado(m, p)

Next ==
  \/ \E p \in Procesos : Ronda(p)
  \/ \E m \in Memorias, p \in Procesos : Atender(m, p)
  \/ \E m \in Memorias : Caer(m) \/ Volver(m)

\* every thread goes on; nothing makes a memory start again
Fairness ==
  /\ \A p \in Procesos \ Apagadas : WF_vars(Ronda(p))
  /\ \A m \in Memorias \ Apagadas : \A p \in Procesos \ (Apagadas \cup {m}) : WF_vars(Atender(m, p))

Spec == Init /\ [][Next]_vars /\ Fairness

-----------------------------------------------------------------------------
(* The Kernel never has a memory twice, although what a memory shows it    *)
(* may have repetitions: two threads of the memory look for the same seed  *)
(* and both add it.                                                        *)
KernelSinRepetidas ==
  \A i, j \in 1..Len(lista[Kernel]) : lista[Kernel][i].mem = lista[Kernel][j].mem => i = j

\* p has m with its number
EnLineaPara(p, m) == Conozco(EnLinea(lista[p]), m) # 0

(* A memory that ends for good is without number in every list in the end, *)
(* in all its entries: the processes do not go on telling it to each       *)
(* other.                                                                  *)
CaidaSeNota ==
  \A m \in Memorias \ Apagadas :
    <>[](m \notin arriba) => <>[](\A p \in Procesos \ {m} : ~EnLineaPara(p, m))

(* When all the memories that are not off run, each ends up with the       *)
(* number of all, and so does the Kernel, though each was told of one only *)
(* and they end and start again at any point of a round.                   *)
SeConocenTodas ==
  <>[](arriba = Procesos \ Apagadas) =>
    <>[](\A m \in Memorias \ Apagadas, p \in Procesos \ Apagadas : EnLineaPara(p, m))
====
