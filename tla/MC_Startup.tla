----------------------------- MODULE MC_Startup -----------------------------
(***************************************************************************)
(* A small memory of units of eight bytes, and headers around the page     *)
(* that begins at 4: in any order, overlapping, empty, out of the file or  *)
(* the memory, not loadable; and around the end of the address space.      *)
(***************************************************************************)
EXTENDS Startup

Header(address, size, file_offset, file_size, flags) ==
    [loadable |-> TRUE, memory_address |-> address, memory_size |-> size,
     file_offset |-> file_offset, file_size |-> file_size, flags |-> flags]

SmallHeaders ==
    {Header(a, n, 1, f, x) : a \in {4, 7, 8}, n \in {0, 2, 5}, f \in {0, 3},
                             x \in {{"execute"}, {"write"}}}
    \union {Header(a, 2, 0, 2, {"execute"}) : a \in {0, 3, 12}}
    \union {Header(4, 2, AddressLimit - 1, 2, {"execute"}),
            Header(8, AddressLimit - 2, 0, 2, {"write"}),
            Header(8, AddressLimit - 2, 5, AddressLimit - 2, {"write"}),
            Header(AddressLimit - PageSize, 0, 0, 0, {}),
            Header(AddressLimit - 1, 0, 0, 0, {})}
    \union {Header(4, 2, 9, 2, {"execute"}), [Header(4, 2, 0, 2, {}) EXCEPT !.loadable = FALSE]}
=============================================================================
