-------------------------------- MODULE Cpio --------------------------------
(***************************************************************************)
(* src/cpio.c: the archive in memory from which programs and files are     *)
(* read.  An archive is [header, byte, files]: the headers by address,     *)
(* each with the name that follows it, the bytes of the files by address,  *)
(* and the files it was made of, which only the properties look at.        *)
(***************************************************************************)
EXTENDS Printf

CONSTANT
    DEFAULT_SIZE   \* what cpio_move_file copies if nothing sets a size (5920)

ASSUME CpioAssumption == DEFAULT_SIZE \in Nat

NULL == 0
INITRAMFS_ADDR == 134217728
CPIO_HEADER_MAGIC == <<48, 55, 48, 55, 48, 49>>
CPIO_FOOTER_MAGIC == <<84, 82, 65, 73, 76, 69, 82, 33, 33, 33>>
CPIO_ALIGNMENT == 4
HeaderSize == 110
FieldSize == 8

\* A byte of memory that is not part of the archive.
Foreign == -1

\* The string at a pointer that was never set.
Unset == <<Foreign>>

\* Mutant: an address that is aligned already goes up to the next one.
AlignPast(n, align) == (n \div align + 1) * align

align_up(n, align) == ((n + align - 1) \div align) * align

\* A character that is no digit ends the number, after one shift more.
parse_hex_str(s, max_len) ==
    LET n == FirstUpTo(max_len, LAMBDA i : a2d(At(s, i)) < 0)
        r[i \in 0 .. n] == IF i = 0 THEN 0 ELSE r[i - 1] * 16 + a2d(At(s, i - 1))
    IN  IF n = max_len THEN r[n] ELSE r[n] * 16

cpio_strncmp(a, b, n) == strncmp(a, b, n)

\* What a valid header at an address says.
Entry(at, h) ==
    LET data == align_up(at + HeaderSize + parse_hex_str(h.namesize, FieldSize),
                         CPIO_ALIGNMENT)
        filesize == parse_hex_str(h.filesize, FieldSize)
    IN  [error |-> 0, filename |-> h.name, filesize |-> filesize, data |-> data,
         next |-> align_up(data + filesize, CPIO_ALIGNMENT)]

cpio_parse_header(a, at) ==
    IF \/ at \notin DOMAIN a.header
       \/ cpio_strncmp(a.header[at].magic, CPIO_HEADER_MAGIC, Len(CPIO_HEADER_MAGIC)) # 0
    THEN [error |-> -1]
    ELSE IF cpio_strncmp(a.header[at].name, CPIO_FOOTER_MAGIC, Len(CPIO_FOOTER_MAGIC) + 1) = 0
    THEN [error |-> 1, filename |-> a.header[at].name]
    ELSE Entry(at, a.header[at])

\* The lines "[cpiogetfile] Current at NAME" that cpio_get_file prints, one for each
\* header it comes to, the last one included.  A header that is not valid leaves
\* the name unset.
CurrentAt(a, name) ==
    LET Walk[at \in Nat] ==
          LET p == cpio_parse_header(a, at)
          IN  IF p.error = -1 THEN <<Unset>>
              ELSE IF p.error = 1 \/ cpio_strncmp(p.filename, name, Len(name) + 1) = 0
              THEN <<p.filename>>
              ELSE <<p.filename>> \o Walk[p.next]
    IN  Walk[INITRAMFS_ADDR]

\* The address of the file, or NULL, *size, which the header of every entry that is
\* passed writes to, and what is printed on the way.
cpio_get_file(a, name, size) ==
    LET Walk[at \in Nat] ==
          LET p == cpio_parse_header(a, at)
          IN  [sz \in Nat |->
                 IF p.error # 0 THEN [result |-> NULL, size |-> sz]
                 ELSE IF cpio_strncmp(p.filename, name, Len(name) + 1) = 0
                 THEN [result |-> p.data, size |-> p.filesize]
                 ELSE Walk[p.next][p.filesize]]
        f == Walk[INITRAMFS_ADDR][size]
    IN  [result |-> f.result, size |-> f.size, printed |-> CurrentAt(a, name)]

cpio_ls(a) ==
    LET Walk[at \in Nat] ==
          LET p == cpio_parse_header(a, at)
          IN  IF p.error # 0 THEN <<>> ELSE <<p.filename>> \o Walk[p.next]
    IN  Walk[INITRAMFS_ADDR]

\* The n bytes of memory from address at on.
Bytes(a, at, n) ==
    [i \in 1 .. n |-> IF at + i - 1 \in DOMAIN a.byte THEN a.byte[at + i - 1] ELSE Foreign]

\* The bytes of the file that was found.
Content(a, f) == Bytes(a, f.result, f.size)

Overwrite(target, file) == file \o SubSeq(target, Len(file) + 1, Len(target))

\* target after the file has been copied over it.  Without the file it is the
\* memory at address 0 that is copied, as much of it as the last entry is long.
cpio_move_file(a, name, target) ==
    Overwrite(target, Content(a, cpio_get_file(a, name, DEFAULT_SIZE)))

-----------------------------------------------------------------------------
(***************************************************************************)
(* What an archive is: files [name, data], one after the other, and a      *)
(* trailer, or something else where the next header should be.             *)
(***************************************************************************)
Padded(n) == n + ((4 - (n % 4)) % 4)

Hex(n) == [i \in 1 .. 8 |-> DigitChar((n \div pow(16, 8 - i)) % 16, TRUE)]

Header(magic, f) ==
    [magic |-> magic, name |-> f.name,
     namesize |-> Hex(Len(f.name) + 1), filesize |-> Hex(Len(f.data))]

DataAt(at, f) == Padded(at + 110 + Len(f.name) + 1)

\* One header after the other: where the one after the first k files is.
HeaderAfter(files, k) ==
    LET at[j \in 0 .. Len(files)] ==
          IF j = 0 THEN INITRAMFS_ADDR
          ELSE Padded(DataAt(at[j - 1], files[j]) + Len(files[j].data))
    IN  at[k]

Trailer == [name |-> CPIO_FOOTER_MAGIC, data |-> <<>>]

\* The archive of files; magic is that of the header after the last of them,
\* the trailer.
Archive(files, magic) ==
    LET n == Len(files)
        place == [i \in 1 .. n + 1 |-> HeaderAfter(files, i - 1)]
        data == [i \in 1 .. n |-> DataAt(place[i], files[i])]
        holds(at, i) == at \in data[i] .. data[i] + Len(files[i].data) - 1
    IN  [files |-> files,
         header |->
           [at \in Range(place) |->
              LET i == CHOOSE j \in 1 .. n + 1 : place[j] = at
              IN  IF i > n THEN Header(magic, Trailer)
                  ELSE Header(CPIO_HEADER_MAGIC, files[i])],
         byte |->
           [at \in UNION {data[i] .. data[i] + Len(files[i].data) - 1 : i \in 1 .. n} |->
              LET i == CHOOSE j \in 1 .. n : holds(at, j)
              IN  files[i].data[at - data[i] + 1]]]

\* a is the archive of its files: names are strings, and what the header says of
\* them fits in its fields.
Packed(a) ==
    /\ a.files \in Seq([name : Seq(1 .. 255) \ {CPIO_FOOTER_MAGIC}, data : Seq(0 .. 255)])
    /\ \A f \in ToSet(a.files) :
         (Len(f.name) + 1) \div pow(16, 7) < 16 /\ Len(f.data) \div pow(16, 7) < 16
    /\ \E at \in DOMAIN a.header : a = Archive(a.files, a.header[at].magic)

\* The files of that name, and the first of them.
Named(files, name) == {i \in DOMAIN files : files[i].name = name}

FirstNamed(files, name) == files[Min(Named(files, name))]

\* f is where the first file of that name is, if there is one.
Locates(a, f, name) ==
    IF Named(a.files, name) = {} THEN f.result = NULL
    ELSE f.result # NULL /\ Content(a, f) = FirstNamed(a.files, name).data

\* The archive is read as it was written: every file is listed, a name finds the
\* first file that has it and all of its bytes, and no other name finds any.
FindsRight(a, name) ==
    /\ cpio_ls(a) = [i \in DOMAIN a.files |-> a.files[i].name]
    /\ Locates(a, cpio_get_file(a, name, DEFAULT_SIZE), name)
=============================================================================
