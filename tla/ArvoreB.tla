------------------------------- MODULE ArvoreB -------------------------------
(***************************************************************************)
(* indexador: the B+ tree in a file (arvoreb.cpp) that indexes the records *)
(* of a dBase table by NOME, and the program that builds it, lists it and  *)
(* removes records through it (main.cpp).  A page of the file is a record  *)
(* [tipo, chaves, ponteiros] whose tamanho is Len(chaves); the pointers of *)
(* a leaf are record numbers and, last, the next leaf.  The names keep the *)
(* source's Portuguese.  Comparisons are strcmp's with the results -1, 0   *)
(* and 1 that the macros of arvoreb.h expect.                              *)
(***************************************************************************)
EXTENDS Integers, Sequences, FiniteSets

CONSTANTS DIM,        \* the keys of a full page, twice MINIMO
          MINIMO,     \* the keys below which a page borrows or is joined
          Tabelas,    \* the tables to index: sequences of [nome, excluido]
          MaxRemocoes \* bound: the removals that are made of a table

VARIABLES linhas,     \* the records of the .dbf file (number i is linhas[i+1])
          num,        \* numDeRegistros of the .dbf header
          pag,        \* the pages of the index file, from position 1
          cab,        \* the header of the index file: root, first leaf (arvoreInfo
                      \* in memory differs from it in counters only)
          lidas,      \* the records criarIndice has read, 0 when none runs
          indexadas,  \* ghost: the records put into the index and not removed
          estado      \* "ok"; "deslocado": a removal saved pages at other pages'
                      \* places; "indefinido": the root was DELETADO; "saiu": exit(1)
vars == <<linhas, num, pag, cab, lidas, indexadas, estado>>

Folhas == {"FOLHA", "RAIZFOLHA"}
Pagina(t, c, p) == [tipo |-> t, chaves |-> c, ponteiros |-> p]
Tamanho(n) == Len(n.chaves)
Registros(n) == SubSeq(n.ponteiros, 1, Tamanho(n))
Pares(c, p) == [i \in 1 .. Len(c) |-> <<c[i], p[i]>>]       \* keys and pointers, side by side
Primeiros(s) == [i \in 1 .. Len(s) |-> s[i][1]]
Segundos(s) == [i \in 1 .. Len(s) |-> s[i][2]]

----------------------------------------------------------------------------
(* Insertion *)

\* A pair goes before the first larger key.
Encaixa(s, par) ==
    LET m == Cardinality({i \in 1 .. Len(s) : s[i][1] <= par[1]})
    IN  SubSeq(s, 1, m) \o <<par>> \o SubSeq(s, m + 1, Len(s))

\* Both duplications: the middle key that goes up, what stays and what moves; a
\* leaf keeps the middle key in the page on the right (guarda = 1), an interior
\* page hands it up and its pointer becomes the first of the page on the right.
Divide(s, par, guarda) ==
    LET h == Len(s) \div 2
        k == par[1]
    IN  IF k < s[h][1]
        THEN [meio |-> s[h], esq |-> Encaixa(SubSeq(s, 1, h - 1), par),
              dir |-> SubSeq(s, h + 1 - guarda, Len(s))]
        ELSE IF k > s[h + 1][1]
        THEN [meio |-> s[h + 1], esq |-> SubSeq(s, 1, h),
              dir |-> Encaixa(SubSeq(s, h + 2 - guarda, Len(s)), par)]
        ELSE [meio |-> par, esq |-> SubSeq(s, 1, h),
              dir |-> (IF guarda = 1 THEN <<par>> ELSE <<>>) \o SubSeq(s, h + 1, Len(s))]

SemResto == [chave |-> 0, esquerda |-> 0, direita |-> 0]

\* The right page goes to the end of the file, the left one stays.
insereEDuplicaFolha(f, pos, chave, ptr) ==
    LET n == f[pos]
        d == Divide(Pares(n.chaves, n.ponteiros), <<chave, ptr>>, 1)
        nova == Len(f) + 1
        esquerda == Pagina("FOLHA", Primeiros(d.esq), Append(Segundos(d.esq), nova))
        direita == Pagina("FOLHA", Primeiros(d.dir),
                          Append(Segundos(d.dir), n.ponteiros[Tamanho(n) + 1]))
    IN  [f |-> Append([f EXCEPT ![pos] = esquerda], direita),
         resto |-> [chave |-> d.meio[1], esquerda |-> pos, direita |-> nova]]

insereEDuplicaNaoFolha(f, pos, chave, ptr) ==
    LET n == f[pos]
        d == Divide(Pares(n.chaves, Tail(n.ponteiros)), <<chave, ptr>>, 0)
        nova == Len(f) + 1
        esquerda == Pagina("INTERNO", Primeiros(d.esq), <<n.ponteiros[1]>> \o Segundos(d.esq))
        direita == Pagina("INTERNO", Primeiros(d.dir), <<d.meio[2]>> \o Segundos(d.dir))
    IN  [f |-> Append([f EXCEPT ![pos] = esquerda], direita),
         resto |-> [chave |-> d.meio[1], esquerda |-> pos, direita |-> nova]]

\* A key that the page has already is not put in it, and nobody is told.
Contem(n, chave) == \E i \in 1 .. Tamanho(n) : n.chaves[i] = chave
Bug_SoChaves(n, chave, ptr) ==           \* the keys move up, the pointers do not
    LET s == Encaixa(Pares(n.chaves, n.ponteiros), <<chave, ptr>>)
    IN  IF Contem(n, chave) THEN n
        ELSE Pagina(n.tipo, Primeiros(s),
                    SubSeq(n.ponteiros, 1, Tamanho(n)) \o <<ptr, n.ponteiros[Tamanho(n) + 1]>>)
insereSemDuplicarFolha(n, chave, ptr) ==
    IF Contem(n, chave) THEN n
    ELSE LET s == Encaixa(Pares(n.chaves, n.ponteiros), <<chave, ptr>>)
         IN  Pagina(n.tipo, Primeiros(s), Append(Segundos(s), n.ponteiros[Tamanho(n) + 1]))
insereSemDuplicarNaoFolha(n, chave, ptr) ==
    IF Contem(n, chave) THEN n
    ELSE LET s == Encaixa(Pares(n.chaves, Tail(n.ponteiros)), <<chave, ptr>>)
         IN  Pagina(n.tipo, Primeiros(s), <<n.ponteiros[1]>> \o Segundos(s))

\* The binary search of an insertion: a key equal to a separator goes to its left.
Desce(n, chave) ==
    LET m == Cardinality({i \in 1 .. Tamanho(n) : n.chaves[i] <= chave})
    IN  IF m > 0 /\ n.chaves[m] = chave THEN m ELSE m + 1

RECURSIVE InsereEm(_, _, _, _)
InsereEm(f, pos, chave, ptr) ==
    LET n == f[pos]
    IN  IF n.tipo \in Folhas
        THEN IF Tamanho(n) = DIM
             THEN insereEDuplicaFolha(f, pos, chave, ptr)
             ELSE [f |-> [f EXCEPT ![pos] = insereSemDuplicarFolha(n, chave, ptr)], resto |-> SemResto]
        ELSE LET r == InsereEm(f, n.ponteiros[Desce(n, chave)], chave, ptr)
             IN  IF r.resto = SemResto
                 THEN r
                 ELSE IF Tamanho(n) = DIM
                 THEN insereEDuplicaNaoFolha(r.f, pos, r.resto.chave, r.resto.direita)
                 ELSE [f |-> [r.f EXCEPT ![pos] =
                                insereSemDuplicarNaoFolha(n, r.resto.chave, r.resto.direita)],
                       resto |-> SemResto]

\* A root that was duplicated gets a new one above it; only then is the header saved.
crescerArvore(f, resto) ==
    Append(f, Pagina("RAIZ", <<resto.chave>>, <<resto.esquerda, resto.direita>>))

salvarCabecalho(raiz, primeira) == [raiz |-> raiz, primeira |-> primeira]

inserirNaArvore(f, i, chave, ptr) ==
    LET r == InsereEm(f, i.raiz, chave, ptr)
    IN  IF r.resto = SemResto
        THEN [f |-> r.f, cab |-> i]
        ELSE LET g == crescerArvore(r.f, r.resto)
             IN  [f |-> g,
                  cab |-> salvarCabecalho(Len(g),
                            IF f[i.raiz].tipo = "RAIZFOLHA" THEN r.resto.esquerda ELSE i.primeira)]

----------------------------------------------------------------------------
(* Removal *)

\* The binary search of a removal stops at the key it looks for or at the last
\* one it looked at (posicao counts from 0).
RECURSIVE BuscaBinaria(_, _, _, _, _)
BuscaBinaria(c, chave, menor, maior, posicao) ==
    IF menor > maior THEN [posicao |-> posicao, encontrou |-> FALSE]
    ELSE LET p == (menor + maior) \div 2
         IN  IF chave = c[p + 1] THEN [posicao |-> p, encontrou |-> TRUE]
             ELSE IF chave < c[p + 1] THEN BuscaBinaria(c, chave, menor, p - 1, p)
             ELSE BuscaBinaria(c, chave, p + 1, maior, p)

SemItem(s, i) == SubSeq(s, 1, i - 1) \o SubSeq(s, i + 1, Len(s))
TipoCom(n, c) == IF c = <<>> THEN "DELETADO" ELSE n.tipo
removePosicaoFolha(n, p) ==
    LET c == SemItem(n.chaves, p + 1) IN Pagina(TipoCom(n, c), c, SemItem(n.ponteiros, p + 1))
removePosicaoNaoFolha(n, p) ==
    LET c == SemItem(n.chaves, p + 1) IN Pagina(TipoCom(n, c), c, SemItem(n.ponteiros, p + 2))

\* What two neighbours hold, cut in half again; the separator of the parent
\* becomes the first key on the right.
Bug_MeioVelho(meio, pos, esquerda, direita) ==     \* the separator is the left page's last key
    LET l == Tamanho(esquerda)
        c == esquerda.chaves \o direita.chaves
        p == SubSeq(esquerda.ponteiros, 1, l) \o direita.ponteiros
        metade == Len(c) \div 2
    IN  [meio |-> [meio EXCEPT !.chaves[pos + 1] = c[metade]],
         esq |-> Pagina(esquerda.tipo, SubSeq(c, 1, metade),
                        Append(SubSeq(p, 1, metade), esquerda.ponteiros[l + 1])),
         dir |-> Pagina(direita.tipo, SubSeq(c, metade + 1, Len(c)), SubSeq(p, metade + 1, Len(p)))]
CompartilhaFolha(meio, pos, esquerda, direita) ==
    LET l == Tamanho(esquerda)
        c == esquerda.chaves \o direita.chaves
        p == SubSeq(esquerda.ponteiros, 1, l) \o direita.ponteiros
        metade == Len(c) \div 2
    IN  [meio |-> [meio EXCEPT !.chaves[pos + 1] = c[metade + 1]],
         esq |-> Pagina(esquerda.tipo, SubSeq(c, 1, metade),
                        Append(SubSeq(p, 1, metade), esquerda.ponteiros[l + 1])),
         dir |-> Pagina(direita.tipo, SubSeq(c, metade + 1, Len(c)), SubSeq(p, metade + 1, Len(p)))]

\* Interior pages turn their keys through the parent's separator.  From the left
\* to the right the copy reads the same entry (metade + 1) every time: j is never
\* advanced (1317-1321), which matters from three keys moved on.
CompartilhaNaoFolha(meio, pos, esquerda, direita, paraDireita) ==
    LET c == Append(esquerda.chaves, meio.chaves[pos + 1]) \o direita.chaves
        p == esquerda.ponteiros \o direita.ponteiros
        l == Tamanho(esquerda)
        metade == (l + Tamanho(direita)) \div 2
        J(i) == IF paraDireita /\ i <= l THEN metade + 2 ELSE i      \* the key or pointer copied
    IN  [meio |-> [meio EXCEPT !.chaves[pos + 1] = c[metade + 1]],
         esq |-> Pagina(esquerda.tipo, SubSeq(c, 1, metade), SubSeq(p, 1, metade + 1)),
         dir |-> Pagina(direita.tipo, [i \in 1 .. Len(c) - metade - 1 |-> c[J(metade + 1 + i)]],
                        [i \in 1 .. Len(p) - metade - 1 |-> p[J(metade + 1 + i)]])]

juntaFolhas(esquerda, direita) ==
    Pagina(esquerda.tipo, esquerda.chaves \o direita.chaves,
           SubSeq(esquerda.ponteiros, 1, Tamanho(esquerda)) \o direita.ponteiros)
juntaPaginasInternas(meio, pos, esquerda, direita) ==
    Pagina(esquerda.tipo, Append(esquerda.chaves, meio.chaves[pos + 1]) \o direita.chaves,
           esquerda.ponteiros \o direita.ponteiros)
Deletada(n) == Pagina("DELETADO", <<>>, SubSeq(n.ponteiros, 1, 1))

\* salvaNoDisco of the parent, the left and the right page, in this order.
Salva(f, pRaiz, raiz, pEsq, esq, pDir, dir) == [[[f EXCEPT ![pRaiz] = raiz] EXCEPT ![pEsq] = esq] EXCEPT ![pDir] = dir]

\* The part of retiraDaArvore after a child fell below MINIMO: filho is child
\* number p of the page.  The neighbour is the one on the right when the search
\* went to the left of a key (aEsquerda), else the one on the left; but the places
\* the two pages are saved at come from posicao, which is put back by one only
\* when filho is the last child (974-982).
Ajusta(f, pos, p, aEsquerda) ==
    LET raiz == f[pos]
        filho == f[raiz.ponteiros[p + 1]]
        outro == f[raiz.ponteiros[IF aEsquerda THEN p + 2 ELSE p]]
        esquerda == IF aEsquerda THEN filho ELSE outro
        direita == IF aEsquerda THEN outro ELSE filho
        posicao == IF p = Tamanho(raiz) THEN p - 1 ELSE p
        pEsq == raiz.ponteiros[posicao + 1]
        pDir == raiz.ponteiros[posicao + 2]
        folha == filho.tipo = "FOLHA"
        desloca == ~aEsquerda /\ p < Tamanho(raiz)
    IN  IF Tamanho(outro) = MINIMO
        THEN LET junta == IF folha THEN juntaFolhas(esquerda, direita)
                          ELSE juntaPaginasInternas(raiz, posicao, esquerda, direita)
                 nova == removePosicaoNaoFolha(raiz, posicao)
                 esq == IF nova.tipo = "DELETADO"
                        THEN [junta EXCEPT !.tipo = IF @ = "FOLHA" THEN "RAIZFOLHA" ELSE "RAIZ"]
                        ELSE junta
             IN  [f |-> Salva(f, pos, nova, pEsq, esq, pDir, Deletada(direita)),
                  altera |-> Tamanho(nova) < MINIMO, desloca |-> desloca, sai |-> FALSE]
        ELSE IF IF aEsquerda THEN Tamanho(esquerda) > Tamanho(direita) ELSE Tamanho(esquerda) < Tamanho(direita)
        THEN [f |-> f, altera |-> FALSE, desloca |-> FALSE, sai |-> TRUE]
        ELSE LET c == IF folha THEN CompartilhaFolha(raiz, posicao, esquerda, direita)
                      ELSE CompartilhaNaoFolha(raiz, posicao, esquerda, direita, ~aEsquerda)
             IN  [f |-> Salva(f, pos, c.meio, pEsq, c.esq, pDir, c.dir),
                  altera |-> FALSE, desloca |-> desloca, sai |-> FALSE]

NaoAchou == -1
RECURSIVE retiraDaArvore(_, _, _)
retiraDaArvore(f, pos, chave) ==
    LET raiz == f[pos]
        b == BuscaBinaria(raiz.chaves, chave, 0, Tamanho(raiz) - 1, 0)
    IN  IF raiz.tipo \in Folhas
        THEN IF b.encontrou
             THEN LET n == removePosicaoFolha(raiz, b.posicao)
                  IN  [f |-> [f EXCEPT ![pos] = n], altera |-> Tamanho(n) < MINIMO, desloca |-> FALSE,
                       sai |-> FALSE, registro |-> raiz.ponteiros[b.posicao + 1]]
             ELSE [f |-> f, altera |-> FALSE, desloca |-> FALSE, sai |-> FALSE, registro |-> NaoAchou]
        ELSE LET aEsquerda == chave < raiz.chaves[b.posicao + 1]
                 p == IF aEsquerda THEN b.posicao ELSE b.posicao + 1
                 r == retiraDaArvore(f, raiz.ponteiros[p + 1], chave)
             IN  IF r.altera /\ ~r.sai
                 THEN LET a == Ajusta(r.f, pos, p, aEsquerda)
                      IN  [f |-> a.f, altera |-> a.altera, desloca |-> a.desloca \/ r.desloca,
                           sai |-> a.sai, registro |-> r.registro]
                 ELSE [r EXCEPT !.altera = FALSE]

----------------------------------------------------------------------------
(* The listing: percorrerArvore *)

\* The leaves from pos on; a chain that comes back to one of them, as damage may
\* leave it, is cut there (the program goes round in it); 0 is the end.
RECURSIVE FolhasDe(_, _, _)
FolhasDe(f, pos, vistas) ==
    IF pos \in vistas \/ pos \notin DOMAIN f THEN <<>>
    ELSE <<pos>> \o FolhasDe(f, f[pos].ponteiros[Tamanho(f[pos]) + 1], vistas \cup {pos})
Cadeia == FolhasDe(pag, cab.primeira, {})

RECURSIVE Junta(_)
Junta(s) == IF s = <<>> THEN <<>> ELSE Registros(pag[Head(s)]) \o Junta(Tail(s))

\* The first page is listed, and listed again by the loop when it is not the only one.
percorrerArvore == IF Len(Cadeia) = 1 THEN Junta(Cadeia) ELSE Registros(pag[Cadeia[1]]) \o Junta(Cadeia)

----------------------------------------------------------------------------
(* The program: criarIndice, removerRegistro *)

Nome(i) == linhas[i + 1].nome
Excluido(i) == linhas[i + 1].excluido

arvoreCriar == <<Pagina("RAIZFOLHA", <<Nome(0)>>, <<0, 0>>)>>

Init == /\ linhas \in Tabelas
        /\ num = Len(linhas)
        /\ pag = arvoreCriar
        /\ cab = [raiz |-> 1, primeira |-> 1]
        /\ lidas = 1 /\ indexadas = {0}
        /\ estado = "ok"

\* The next record of the table goes into the index unless it is marked excluded.
\* A name that its leaf holds already is left out.
Insere == /\ lidas > 0 /\ lidas < num
          /\ lidas' = lidas + 1
          /\ IF Excluido(lidas)
             THEN UNCHANGED <<pag, cab, indexadas>>
             ELSE LET r == inserirNaArvore(pag, cab, Nome(lidas), lidas)
                  IN  /\ pag' = r.f /\ cab' = r.cab
                      /\ indexadas' = IF r.f = pag THEN indexadas ELSE indexadas \cup {lidas}
          /\ UNCHANGED <<linhas, num, estado>>

Pronto == /\ lidas > 0 /\ lidas >= num
          /\ lidas' = 0
          /\ UNCHANGED <<linhas, num, pag, cab, indexadas, estado>>

\* criarIndice once more: it truncates the file and reads as many records as the
\* header of the table counts; the first one is not looked at for its mark.
Recria == /\ lidas = 0
          /\ lidas' = 1 /\ pag' = arvoreCriar
          /\ cab' = [raiz |-> 1, primeira |-> 1]
          /\ indexadas' = {0} /\ estado' = "ok"
          /\ UNCHANGED <<linhas, num>>

\* The header is loaded, and the root it names.
carregarArvoreInfo == pag[cab.raiz]

\* removerRegistro: the header is loaded, the key removed from the index, the
\* record it pointed at marked.  The header is never saved here: when the root was
\* joined away, the file's header goes on naming the page that is now DELETADO.
removerRegistro(chave) ==
    /\ lidas = 0 /\ estado = "ok"
    /\ num > Len(linhas) - MaxRemocoes
    /\ carregarArvoreInfo.tipo # "DELETADO"
    /\ LET r == retiraDaArvore(pag, cab.raiz, chave)
       IN  /\ pag' = r.f
           /\ estado' = IF r.sai THEN "saiu" ELSE IF r.desloca THEN "deslocado" ELSE "ok"
           /\ IF r.registro = NaoAchou \/ r.sai
              THEN UNCHANGED <<linhas, num, indexadas>>
              ELSE /\ linhas' = [linhas EXCEPT ![r.registro + 1].excluido = TRUE]
                   /\ num' = num - 1
                   /\ indexadas' = indexadas \ {r.registro}
    /\ UNCHANGED <<cab, lidas>>

\* With a DELETADO root the search of retiraDaArvore never sets posicao, and the
\* function reads through it (932).
RemoveDeRaizDeletada ==
    /\ lidas = 0 /\ estado = "ok"
    /\ carregarArvoreInfo.tipo = "DELETADO"
    /\ estado' = "indefinido"
    /\ UNCHANGED <<linhas, num, pag, cab, lidas, indexadas>>

Next == \/ Insere \/ Pronto \/ Recria \/ RemoveDeRaizDeletada
        \/ \E i \in 0 .. Len(linhas) - 1 : removerRegistro(Nome(i))
Spec == Init /\ [][Next]_vars

----------------------------------------------------------------------------
(* What the index promises *)

Nomes == {linhas[i].nome : i \in 1 .. Len(linhas)}
TypeOK ==
    /\ Len(linhas) \in Nat \ {0} /\ num \in Int /\ num <= Len(linhas)
    /\ \A i \in 1 .. Len(pag) :
        /\ pag[i].tipo \in {"DELETADO", "INTERNO", "FOLHA", "RAIZFOLHA", "RAIZ"}
        /\ \A j \in 1 .. Tamanho(pag[i]) : pag[i].chaves[j] \in Nomes
        /\ Tamanho(pag[i]) <= DIM
        /\ pag[i].tipo # "DELETADO" => Len(pag[i].ponteiros) = Tamanho(pag[i]) + 1
    /\ {cab.raiz, cab.primeira} \subseteq 1 .. Len(pag)
    /\ lidas \in 0 .. Len(linhas) /\ indexadas \subseteq 0 .. Len(linhas) - 1
    /\ estado \in {"ok", "deslocado", "indefinido", "saiu"}

Distintas == \A i, j \in 1 .. Len(linhas) : i # j => linhas[i].nome # linhas[j].nome

\* The page the tree hangs from: the header's, or the one the last join left of it.
RaizViva == IF pag[cab.raiz].tipo = "DELETADO" /\ cab.raiz # cab.primeira
            THEN pag[cab.raiz].ponteiros[1] ELSE cab.raiz

\* The height of the subtree under a page that is a search tree over lo .. hi-1 with
\* full enough pages, or 0 when it is none.
RECURSIVE AlturaDe(_, _, _, _)
AlturaDe(pos, lo, hi, minimo) ==
    LET n == pag[pos]
        c == <<lo>> \o n.chaves \o <<hi>>
        t == Tamanho(n)
        h == {AlturaDe(n.ponteiros[i], c[i], c[i + 1], MINIMO) : i \in 1 .. t + 1}
    IN  IF ~(t >= minimo /\ \A i \in 1 .. t : c[i] <= c[i + 1] /\ c[i + 1] < hi) THEN 0
        ELSE IF n.tipo \in Folhas THEN 1
        ELSE IF 0 \in h \/ Cardinality(h) > 1 THEN 0 ELSE 1 + CHOOSE x \in h : TRUE

\* Over splits, borrowing and joins of leaves and interior pages the index is a
\* balanced search tree whose pages but the root are half full, when no name
\* occurs twice and no removal went wrong (inserirNaArvore, retiraDaArvore).
ArvoreDeBusca ==
    estado = "ok" /\ Distintas =>
        \/ AlturaDe(RaizViva, 0, 1 + Cardinality(Nomes), 1) > 0
        \/ indexadas = {}

\* The chain of leaves the listing walks meets every record that was put into the
\* index and not removed, each once and in the order of the names, when no name
\* occurs twice: no split or join breaks a link (percorrerArvore).
CadeiaCompleta ==
    estado = "ok" /\ Distintas =>
        LET s == Junta(Cadeia)
        IN  /\ {s[i] : i \in 1 .. Len(s)} = indexadas
            /\ {percorrerArvore[i] : i \in 1 .. Len(percorrerArvore)} = indexadas
            /\ \A i \in 1 .. Len(s) - 1 : Nome(s[i]) < Nome(s[i + 1])

\* Repeated names or not, an entry of a leaf points at a record of that name: the
\* record that removerRegistro marks has the name it was asked to remove.
EntradaCerta ==
    estado = "ok" => \A p \in {Cadeia[i] : i \in 1 .. Len(Cadeia)} : \A j \in 1 .. Tamanho(pag[p]) :
                        Nome(pag[p].ponteiros[j]) = pag[p].chaves[j]
=============================================================================
