------------------------------- MODULE Memory -------------------------------
(***************************************************************************)
(* The memory back ends behind struct memory_ctx, as the step sequences of *)
(* Steps: what each of them acquires in init and allocate_buffer, what its *)
(* error paths leave behind, and what free_buffer and destroy give back.   *)
(* Context calls them through the four operators at the end, as ctx_init   *)
(* and destroy_ctx call the function pointers.                             *)
(*                                                                         *)
(* The type is the memory option of the command line, host memory without  *)
(* one.  "touch" is --gpu_touch, "dmabuf" the DMA-BUF switch of the type.  *)
(* A buffer's index i is "0", or "1" for the second of --mr_per_qp.        *)
(***************************************************************************)
EXTENDS Steps

On(c, opt)    == opt \in c.opts
Own(o, names) == {<<o, n>> : n \in names}
Buf(o, i)     == {<<o, "buffer", i>>}
Fd(o, i)      == {<<o, "dmabuf_fd", i>>}
TwoMrs(c)     == c.qps = 2 /\ On(c, "mr_per_qp")
LastMr(c)     == IF TwoMrs(c) THEN "1" ELSE "0"

\* acquire rs; if that fails, undo and report the failure
GetOrUndo(here, rs, undo, to) == OrElse(here, Get(rs, Failed(here)), undo, to)
\* the file descriptor of a buffer exported for the NIC; the buffer stays
\* allocated when the export fails
Export(c, o, i, to) == When(On(c, "dmabuf"), Get(Fd(o, i), to))

-----------------------------------------------------------------------------
(* Host memory: memalign, huge pages of a memfd, a mapped file, a DMA heap.  *)

alloc_hugepage_region(o, i, to) ==
    LET here == <<o, "hugepage", i>>
        memfd == {<<o, "memfd", i>>}
    IN Get(memfd, to)
       \o OrElse(here, Call(Failed(here)) \o Get(Buf(o, i), Failed(here)),
                 Put(memfd, Nowhere), to)
       \o Put(memfd, Nowhere)
\* Under --data_validation: 1 GB pages, else 2 MB pages, else regular ones.
alloc_huge_pages_with_fallback(o, i, to) ==
    LET have == <<o, "pages", i>>
        two == have \o <<"2MB">>
        regular == have \o <<"regular">>
    IN Get(Buf(o, i), two) \o Goto(have)
       \o At(two) \o Get(Buf(o, i), regular) \o Goto(have)
       \o At(regular) \o Get(Buf(o, i), to) \o At(have)
host_memory_allocate_buffer(c, o, i, to) ==
    IF On(c, "validation") THEN alloc_huge_pages_with_fallback(o, i, to)
    ELSE IF On(c, "hugepages") THEN alloc_hugepage_region(o, i, to)
    ELSE Get(Buf(o, i), to)

\* create_single_mr replaces ctx->buf by the buffer itself: the array is lost.
mmap_memory_allocate_buffer(o, i, to) ==
    LET here == <<o, "mmap", i>>
        file == {<<o, "file", i>>}
    IN Get(Own(o, {"lost_buf"}), Nowhere) \o Get(file, to)
       \o GetOrUndo(here, Buf(o, i), Put(file, Nowhere), to) \o Put(file, Nowhere)

system_dmabuf_memory_allocate_buffer(o, i, to) ==
    LET heap == {<<o, "heap_fd", i>>}
    IN Get(heap, to)
       \o GetOrUndo(<<o, "heap", i>>, Fd(o, i), Put(heap, Nowhere), to)
       \o Put(heap, Nowhere)
       \o GetOrUndo(<<o, "map", i>>, Buf(o, i), Put(Fd(o, i), Nowhere), to)

-----------------------------------------------------------------------------
(* Accelerators.                                                            *)

\* The library is opened, and closed again when a symbol is missing.
LoadLibrary(o, name, to) ==
    Get(Own(o, {name}), to)
    \o OrElse(<<o, name, "symbols">>, Call(Failed(<<o, name, "symbols">>)),
              PutNull(Own(o, {name}), Nowhere), to)

cuda_init_gpu(c, o, to) ==
    Call(to) \o Get(Own(o, {"gpu_context"}), to) \o Call(to)
    \o When(On(c, "touch"), LoadLibrary(o, "kernel_plugin", to)
                            \o Get(Own(o, {"stop_flag"}), to))
cuda_memory_init(c, o, to) ==
    LoadLibrary(o, "library", Exit)
    \o cuda_init_gpu(c, o, to) \o When(On(c, "dmabuf"), Call(to))
cuda_memory_allocate_buffer(c, o, i, to) ==
    Get(Buf(o, i), to) \o Export(c, o, i, to) \o When(On(c, "touch"), Call(to))
\* The first buffer to go stops the touching kernel.
cuda_memory_free_buffer(o, i) ==
    PutIfNull(Own(o, {"stop_flag"}), Nowhere) \o Put(Buf(o, i), Nowhere)
cuda_memory_destroy(o) ==
    PutIf(Own(o, {"gpu_context"}), Nowhere)
    \o PutIfNull(Own(o, {"kernel_plugin"}), Nowhere)
    \o PutIfNull(Own(o, {"library"}), Nowhere)

musa_memory_init(c, o, to) ==
    LoadLibrary(o, "library", to) \o Call(to) \o Get(Own(o, {"gpu_context"}), to)
    \o Call(to) \o When(On(c, "dmabuf"), Call(to))
musa_memory_destroy(o) ==
    PutIfNull(Own(o, {"gpu_context"}), Nowhere) \o PutIfNull(Own(o, {"library"}), Nowhere)

rocm_memory_init(c, o, to) == Call(to) \o When(On(c, "dmabuf"), Call(to))
\* cuMemAlloc, muMemAlloc, hipMalloc, cnMalloc, then the export.
device_allocate_buffer(c, o, i, to) == Get(Buf(o, i), to) \o Export(c, o, i, to)

mlu_memory_init(c, o, to) ==
    Call(to) \o Get(Own(o, {"gpu_context"}), to) \o Call(to)
    \o When(On(c, "dmabuf"), Call(to))
\* free_mlu does not ask whether there is a context.
mlu_memory_destroy(o) == Put(Own(o, {"gpu_context"}), Nowhere)

opencl_memory_init(o, to) ==
    Call(to) \o Get(Own(o, {"gpu_context"}), to)
    \o GetOrUndo(<<o, "command_queue">>, Own(o, {"command_queue"}),
                 Put(Own(o, {"gpu_context"}), Nowhere), to)
\* free_gpu, whatever init left behind.
opencl_memory_destroy(o) ==
    Put(Own(o, {"command_queue"}), Nowhere) \o Put(Own(o, {"gpu_context"}), Nowhere)
\* buffer_ctx, with the touching thread, is one pointer for all the buffers.
Toucher(o, i) == {<<o, "touch_thread", i>>}
opencl_memory_allocate_buffer(c, o, i, to) ==
    Get(Buf(o, i), to) \o When(On(c, "touch"), Get(Toucher(o, i), to))
opencl_memory_free_buffer(c, o, i) ==
    When(On(c, "touch"), Put(Toucher(o, LastMr(c)), Nowhere)) \o Put(Buf(o, i), Nowhere)

hl_memory_init(o, to) ==
    Get(Own(o, {"device_fd"}), to)
    \o GetOrUndo(<<o, "table_lock">>, Own(o, {"table_lock"}),
                 Put(Own(o, {"device_fd"}), Nowhere), to)
hl_memory_destroy(o) ==
    Put(Own(o, {"table_lock"}), Nowhere) \o Put(Own(o, {"device_fd"}), Nowhere)
hl_memory_allocate_buffer(o, i, to) ==
    Get({<<o, "handle", i>>}, to) \o Get(Buf(o, i), to) \o Call(to) \o Get(Fd(o, i), to)
hl_memory_free_buffer(o, i) ==
    LET kept == <<o, "handle", "kept", i>>
    IN Put(Buf(o, i), kept) \o Put({<<o, "handle", i>>}, Nowhere) \o At(kept)

\* Device memory of the NIC, through a device context of its own.  "dm" is one
\* pointer for all the buffers, set to NULL by the first free_buffer.
dm_memory_init(o, to) == Call(to) \o Get(Own(o, {"dm_ib_ctx"}), to)
dm_memory_destroy(o)  == PutIf(Own(o, {"dm_ib_ctx"}), Nowhere)
dm_memory_allocate_buffer(c, o, i, to) ==
    Call(to) \o Get(Buf(o, i), to)
    \o When(On(c, "dmabuf"), GetOrUndo(<<o, "export", i>>, Fd(o, i),
                                       PutNull(Buf(o, i), Nowhere), to))
dm_memory_free_buffer(c, o, i) ==
    When(i = "0", PutIfNull(Buf(o, LastMr(c)), Nowhere))

neuron_memory_init(o, to) == Get(Own(o, {"nrt"}), to)
\* The tensors are freed here, and free_buffer does nothing.
neuron_memory_destroy(o) ==
    PutIf(Buf(o, "0") \cup Buf(o, "1"), Nowhere) \o PutIf(Own(o, {"nrt"}), Nowhere)
neuron_memory_allocate_buffer(c, o, i, to) ==
    LET here == <<o, "tensor", i>>
    IN Get(Buf(o, i), to)
       \o OrElse(here, Call(Failed(here)) \o Export(c, o, i, Failed(here)),
                 PutNull(Buf(o, i), Nowhere), to)

-----------------------------------------------------------------------------
(* struct memory_ctx.                                                       *)

memory_init(c, o, to) ==
    CASE On(c, "cuda") -> cuda_memory_init(c, o, to)
      [] On(c, "musa") -> musa_memory_init(c, o, to)
      [] On(c, "rocm") -> rocm_memory_init(c, o, to)
      [] On(c, "mlu")  -> mlu_memory_init(c, o, to)
      [] On(c, "opencl") -> opencl_memory_init(o, to)
      [] On(c, "hl")   -> hl_memory_init(o, to)
      [] On(c, "dm")   -> dm_memory_init(o, to)
      [] On(c, "neuron") -> neuron_memory_init(o, to)
      [] OTHER -> <<>>

allocate_buffer(c, o, i, to) ==
    CASE On(c, "cuda") -> cuda_memory_allocate_buffer(c, o, i, to)
      [] On(c, "musa") \/ On(c, "rocm") \/ On(c, "mlu") -> device_allocate_buffer(c, o, i, to)
      [] On(c, "opencl") -> opencl_memory_allocate_buffer(c, o, i, to)
      [] On(c, "hl")   -> hl_memory_allocate_buffer(o, i, to)
      [] On(c, "dm")   -> dm_memory_allocate_buffer(c, o, i, to)
      [] On(c, "neuron") -> neuron_memory_allocate_buffer(c, o, i, to)
      [] On(c, "system_dmabuf") -> system_dmabuf_memory_allocate_buffer(o, i, to)
      [] On(c, "mmap") -> mmap_memory_allocate_buffer(o, i, to)
      [] OTHER -> host_memory_allocate_buffer(c, o, i, to)

free_buffer(c, o, i) ==
    CASE On(c, "cuda")   -> cuda_memory_free_buffer(o, i)
      [] On(c, "opencl") -> opencl_memory_free_buffer(c, o, i)
      [] On(c, "hl")     -> hl_memory_free_buffer(o, i)
      [] On(c, "dm")     -> dm_memory_free_buffer(c, o, i)
      [] On(c, "neuron") -> <<>>
      [] OTHER -> Put(Buf(o, i), Nowhere)

\* The structure itself goes last, and ctx->memory is set to NULL.
memory_destroy(c, o) ==
    (CASE On(c, "cuda")   -> cuda_memory_destroy(o)
       [] On(c, "musa")   -> musa_memory_destroy(o)
       [] On(c, "mlu")    -> mlu_memory_destroy(o)
       [] On(c, "opencl") -> opencl_memory_destroy(o)
       [] On(c, "hl")     -> hl_memory_destroy(o)
       [] On(c, "dm")     -> dm_memory_destroy(o)
       [] On(c, "neuron") -> neuron_memory_destroy(o)
       [] OTHER -> <<>>)
    \o PutIfNull(Own(o, {"memory"}), Nowhere)
=============================================================================
