----------------------------- MODULE AcmRegisters -----------------------------
(***************************************************************************)
(* From the binary attributes of the driver to registers: which item of a  *)
(* sysfs file is which register of which part of the ACM                   *)
(* (ngn.ngn-dd/acm: sysfs_config.c, sysfs.c, bypass.h, redundancy.h).  A   *)
(* register is [part, at]: the number of a bypass module, or the redundancy *)
(* module, and an offset in bytes.                                         *)
(***************************************************************************)
EXTENDS Integers

MODULES_COUNT == 2              \* ACMDRV_BYPASS_MODULES_COUNT
NR_RULES == 16                  \* ACMDRV_BYPASS_NR_RULES
DMA_CMD_COUNT == 256            \* ..._SCATTER_, ..._PREFETCH_ and ..._GATHER_DMA_CMD_COUNT
CONST_BUFFER_SIZE == 4096
REDUN_ENTRY_COUNT == 32         \* ACMDRV_REDUN_TABLE_ENTRY_COUNT
SCHED_TBL_COUNT == 2
SCHED_TBL_ROW_COUNT == 1024
WORD == 4                       \* bytes

-----------------------------------------------------------------------------
(* Accesses to a binary attribute *)

\* sysfs_bin_attr_check(): an access within the attribute, in whole items.
AccessOk(attr_size, off, size, elsize) ==
  /\ off >= 0 /\ off + size <= attr_size
  /\ size % elsize = 0 /\ off % elsize = 0

\* foreach_item
ItemsOf(off, size, elsize) == (off \div elsize) .. ((off + size) \div elsize - 1)

-----------------------------------------------------------------------------
(* Attributes of both bypass modules: struct sysfs_bypass_attr.  items are those *)
(* of one module; padsize is the size of an item in the file.                    *)

Rules(offset, size, padsize) ==
  [offset |-> offset, items |-> NR_RULES, elemsize |-> size, padsize |-> padsize, delta |-> 256]
Words(offset, items) ==
  [offset |-> offset, items |-> items, elemsize |-> WORD, padsize |-> WORD, delta |-> WORD]

BYPASS_ATTR ==
  [ lookup_pattern |-> Rules(0, 16, 16),
    layer7_pattern |-> Rules(16, 112, 128),
    lookup_mask |-> Rules(128, 16, 16),
    layer7_mask |-> Rules(144, 112, 128),
    stream_trigger |-> Words(8192, NR_RULES + 1),
    scatter_dma |-> Words(12288, DMA_CMD_COUNT),
    gather_dma |-> Words(20480, DMA_CMD_COUNT),
    prefetch_dma |-> Words(22528, DMA_CMD_COUNT),
    const_buffer |-> [offset |-> 28672, items |-> 1, elemsize |-> CONST_BUFFER_SIZE,
                      padsize |-> CONST_BUFFER_SIZE, delta |-> CONST_BUFFER_SIZE] ]

BypassAttrs == DOMAIN BYPASS_ATTR
AttrSize(a) == MODULES_COUNT * BYPASS_ATTR[a].items * BYPASS_ATTR[a].padsize

\* sysfs_bypass_attr_read() and ..._write(): the first register of item i.
BypassItem(a, i) ==
  LET nr_items == (AttrSize(a) \div BYPASS_ATTR[a].padsize) \div MODULES_COUNT
  IN  [ part |-> i \div nr_items,
        at |-> BYPASS_ATTR[a].offset + (i % nr_items) * BYPASS_ATTR[a].delta ]

\* The words of item i.
BypassWords(a, i) ==
  { [part |-> BypassItem(a, i).part, at |-> BypassItem(a, i).at + WORD * k] :
      k \in 0 .. (BYPASS_ATTR[a].elemsize \div WORD) - 1 }

-----------------------------------------------------------------------------
(* Registers of the control area: struct sysfs_bypass_reg_attr *)

CONTROL_AREA == 49152
CONTROL_REG ==
  [ cntl_ngn_enable |-> 0, cntl_lookup_enable |-> 4, cntl_layer7_enable |-> 8,
    cntl_ingress_policing_enable |-> 12, cntl_connection_mode |-> 16, cntl_output_disable |-> 20,
    cntl_layer7_length |-> 24, cntl_speed |-> 28, cntl_gather_delay |-> 32,
    cntl_ingress_policing_control |-> 36 ]

\* sysfs_bypass_reg_read() and ..._write(): item i is the register of module i.
ControlItem(a, i) == [part |-> i, at |-> CONTROL_AREA + CONTROL_REG[a]]

-----------------------------------------------------------------------------
(* The control table of the redundancy module, one per bypass module *)

REDUNDANCY_PART == MODULES_COUNT
REDUN_CTRLTAB(i) == 512 + i * 256

\* redund_cnt_tab_read() and redund_cnt_tab_write()
RedundancyItem(i) ==
  [ part |-> REDUNDANCY_PART,
    at |-> REDUN_CTRLTAB(i \div REDUN_ENTRY_COUNT) + (i % REDUN_ENTRY_COUNT) * WORD ]

-----------------------------------------------------------------------------
(* Scheduler attributes *)

\* sched_tab_row_read() and sched_tab_row_write()
SchedRowItem(i) ==
  [ sched |-> (i \div SCHED_TBL_ROW_COUNT) \div SCHED_TBL_COUNT,
    table |-> (i \div SCHED_TBL_ROW_COUNT) % SCHED_TBL_COUNT,
    row |-> i % SCHED_TBL_ROW_COUNT ]

-----------------------------------------------------------------------------
(* The numbers of items as libacmconfig counts them: offsets it writes to.  (Its *)
(* constants are its own: libacmconfig_def.h, sysfs.h.)                          *)

LIB_ITEMS ==
  [ lookup_pattern |-> 16, lookup_mask |-> 16, layer7_pattern |-> 16, layer7_mask |-> 16,
    stream_trigger |-> 16 + 1, scatter_dma |-> 256, gather_dma |-> 256, prefetch_dma |-> 256,
    const_buffer |-> 1 ]
LIB_REDUNDANT_STREAMS == 32

\* Where libacmconfig writes item index of a module.
LibOffset(a, module_id, index) ==
  module_id * BYPASS_ATTR[a].padsize * LIB_ITEMS[a] + index * BYPASS_ATTR[a].padsize

\* The register that an access of one item at an offset ends at.
RegisterAt(a, off) == BypassItem(a, off \div BYPASS_ATTR[a].padsize)

LibRedundancyOffset(module_id, index) == module_id * WORD * LIB_REDUNDANT_STREAMS + index * WORD
RedundancyRegisterAt(off) == RedundancyItem(off \div WORD)
=============================================================================
