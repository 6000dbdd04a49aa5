--------------------------------- MODULE MCHxml ---------------------------------
(* Hardware descriptions for TLC: a part with units, storages and buses, and a    *)
(* part with operations, each in a few forms.                                     *)
EXTENDS Hxml

Element(tag, children) == <<Start(tag)>> \o children \o <<End(tag)>>
Name(n) == <<Leaf("NAME", Word(n))>>
Type(t) == <<Leaf("TYPE", Word(t))>>
Headers == Element("HEADERS", Name("dsp.h"))
Unit(children) == Element("FUNCTIONAL_COMPONENT", children)
Storage(n) == Element("STORAGE_COMPONENT", Name(n))

Bus(width, units, stores) ==
  Element("BUS_COMPONENT",
    <<Leaf("ADDR_BUS_WIDTH", Num(width))>>
      \o Element("FUNCTIONAL_COMPONENTS", units) \o Element("STORAGE_COMPONENTS", stores))

Implements(children) == Element("IMPLEMENTATION", children)
Id(n) == <<Leaf("ID", Num(n))>>
In(n) == <<Leaf("START_INPUT_XR", Num(n))>>
Out(n) == <<Leaf("START_OUTPUT_XR", Num(n))>>
Component(children) == Element("COMPONENT", children)
Operations(components) == Element("OPERATIONS", Element("OPERATION", Name("f") \o components))

Fpga == Unit(Name("v4") \o Type("FPGA"))
DspHeaders == Unit(Name("magic") \o Headers \o Type("DSP"))
\* A second one of that name, which is never found.
FpgaAgain == Unit(Headers \o Type("DSP") \o Name("v4"))
Untyped == Unit(Name("v4"))
NoNameUnit == Unit(Type("GPP"))
Junk == Unit(Name("v4") \o Type("CPU"))

Units == { Fpga, Fpga \o DspHeaders, DspHeaders \o Fpga \o FpgaAgain, Untyped \o FpgaAgain,
           NoNameUnit \o Fpga, Fpga \o NoNameUnit, Junk, <<>> }

Ram == Bus(18, Name("v4"), Name("ram"))
Xr == Bus(10, Name("v4"), Name("ram") \o Name("XREG"))
OtherRam == Bus(32, Name("v4") \o Name("magic"), <<>>)
Storages == Storage("ram") \o Storage("XREG")
Ignored == Element("VBUS_COMPONENT", Name("vbus")) \o Element("DATA", Name("data"))

\* None, one or two of each kind of memory, three, and what is refused.
Buses == { <<>>, Storages \o Ignored \o Ram \o Xr, Storages \o Xr \o Ram \o Ignored,
           Storages \o Xr, Ram, Storages \o Ram \o OtherRam \o Xr,
           Storages \o Ram \o Xr \o OtherRam,
           Storages \o Element("FUNCTIONAL_COMPONENTS", <<>>) }

Code == { Operations(Component(Name("v4") \o Implements(Id(1) \o In(3) \o Out(5)))),
          Operations(Component(Name("v4") \o Implements(Id(2) \o In(3)) \o Implements(Out(4) \o Id(1)))
                       \o Component(Name("magic") \o Implements(In(7) \o Id(1)))),
          Operations(Component(Name("magic") \o Implements(Id(1)))
                       \o Component(Name("v4") \o Implements(Id(0) \o Out(6)))),
          Operations(Component(Implements(Id(1)))),
          Element("OPERATIONS", Id(1)),
          Component(Name("v4")) }

Wrapped(d) == Element("ORGANIZATION", d)

MCDocuments ==
  { Wrapped(u \o b \o c) : u \in Units, b \in Buses, c \in Code }
    \cup { Wrapped(c \o u) : u \in Units, c \in Code }
    \cup { Wrapped(Headers \o Name("board") \o u) : u \in Units }
MCIds == 0 .. 2
================================================================================
